---- MODULE Spec2Model ----
(***************************************************************************)
(* Live-tracking engine of the lost-and-found client.                      *)
(*                                                                         *)
(*   Dashboard      src/src/Dashboard.js   device map, snapshot polling,   *)
(*                                         live uploads, tracking sessions *)
(*   CampusManager  src/unnamed/part_005   campus bounds, zones,           *)
(*                                         point classification            *)
(*   MapController  src/unnamed/part_004   user-interaction flag of the    *)
(*                                         map and its 2 s debounce timer  *)
(*                                                                         *)
(* Timestamps are ticks of one clock (now).  Coordinates are integers in   *)
(* units of baseSize/20 = 0.000001125 degrees, so that every zone offset   *)
(* and half-size of generateCampusSections is a whole number.              *)
(***************************************************************************)
EXTENDS Integers, Sequences, FiniteSets, TLC

VARIABLES
    \* ---- Dashboard: React state and refs ----
    mounted,            \* the Dashboard component is mounted
    epoch,              \* number of runs of the [user] effect so far
    devices,            \* useState devices: sequence of device records
    currentDeviceId,    \* useState currentDeviceId ("none" = null)
    locationStatus,     \* useState locationStatus
    capCur,             \* currentDeviceId as captured by the closures of the running effect
    capDevs,            \* devices as captured by the closures of the running effect
    capStatus,          \* locationStatus as captured by the closures of the running effect
    handles,            \* live geolocation watches and interval timers of the browser
    trackers,           \* deviceTrackersRef.current: device_id -> {type, id}
    watcherRef,         \* locationWatcherRef.current (0 = null)
    intervalRef,        \* locationIntervalRef.current (0 = null)
    nextHandle,         \* next id the browser hands out for a watch or a timer
    nextSid,            \* number of the next tracking session
    \* ---- Dashboard: work in flight ----
    initPending,        \* initializeDeviceTracking calls awaiting checkDeviceExists
    fetches,            \* fetchDevices calls awaiting the snapshot
    uploads,            \* updateDeviceLocation calls awaiting the server
    oneshots,           \* getCurrentPosition requests not yet answered
    fbPending,          \* startFallbackLocationTracking calls awaiting their first update
    timers,             \* pending 30 s downgrade timeouts of the mobile watch
    now,                \* the clock (new Date())
    isMobile,           \* isMobileDevice(): the user agent of this client
    geolocation,        \* navigator.geolocation is available
    server,             \* the account's device list on the server: device_id -> last_updated (-1 = not listed)
    \* ---- CampusManager ----
    origin,             \* userLocation handed to the constructor
    probe,              \* the point last classified
    section,            \* result of getCurrentSection(probe)
    inCampus,           \* result of isInCampus(probe)
    \* ---- MapController / MapView ----
    refInteracting,     \* MapController userInteracting.current
    userInteracting,    \* MapView useState userInteracting (seen by StableMapUpdater)
    interactionTimer,   \* MapController interactionTimer.current (0 = null)
    mapTimers,          \* pending setTimeout(.., 2000) callbacks: id -> deadline
    nextTimer,          \* next timeout id
    open,               \* interaction-start events not yet matched by an end event
    lastEnd,            \* time of the last interaction-end event (-1 = none yet)
    mapNow,             \* the clock of the map, in seconds
    \* ---- getNetworkBasedLocation ----
    netIdx,             \* index of the service whose answer the call awaits (0 = no call running)
    netAsked,           \* the services fetched by the call so far, in order
    netLog,             \* their answers so far, in order
    netResult,          \* the location the call returned (NoResult = not yet)
    lastKnown,          \* the device's last-known position when the call is made (NoPosition = none)
    \* ---- live samples: processGPSLocation, processRealTimeLocation, updateDeviceLocation ----
    gpsNow,             \* the clock of the sampling client (new Date())
    gpsCandidate,       \* the position the browser delivered last (NoSample = none yet)
    gpsAccepted,        \* the sample handed to updateDeviceLocation last (NoSample = none yet)
    lastPosition,       \* useState lastPosition of the continuous tracker
    gpsUploads,         \* updateDeviceLocation calls awaiting the server
    gpsDevices,         \* useState devices of the sampling client
    gpsServer,          \* the server's device list of the account
    \* ---- CampusManager: the overlap check ----
    zoneOrigin,         \* userLocation of the campus whose zones are compared
    polyA,              \* the polygons doPolygonsOverlap was last called with
    polyB,
    overlaps,           \* what that call returned
    noOverlaps,         \* what verifyNoOverlaps returned when the campus was built
    \* ---- StableMapUpdater.  Time is in half seconds. ----
    viewNow,            \* the clock
    viewDevices,        \* the devices prop
    viewInteracting,    \* the userInteracting prop
    lastDeviceCount,    \* lastDeviceCount.current
    lastDevicePositions,\* lastDevicePositions.current
    updateInProgress,   \* updateInProgress.current
    viewTimers,         \* deadlines of the pending setTimeout(.., 1000) callbacks
    mapZoom,            \* map.getZoom()
    flight,             \* the last flyTo: the centre it left, its target, its nominal end
    viewMounted,        \* mapReady: StableMapUpdater is mounted
    decision,           \* the last run of the effect past its guard: what shouldUpdateMap was
                        \* given and returned, and the centre and zoom computed
    \* ---- MapView: the campus effects ----
    campMounted,        \* MapView is mounted
    campDevices,        \* the devices prop
    campUser,           \* the userLocation prop (NoOrigin = null)
    saved,              \* localStorage 'campus_center' (NoSaved = absent)
    campusCenterLocation, \* useState campusCenterLocation (NoOrigin = null)
    firstDevice,        \* useState firstDevice (NoFirstDevice = null)
    campusManager,      \* the campus of the MapView that keeps a campus centre
    userCampus,         \* the campus of the MapView that builds at the user location
    built,              \* the campuses the two constructors built last, and their argument
    \* ---- Dashboard: the outcome of the polls ----
    failures,           \* fetchDevices calls that ended in the catch block so far
    polledAfterFailure, \* the devicesInterval fired after the last of them
    \* ---- CampusManager.calculateDistance.  Angles are in degrees. ----
    distFrom,           \* (lat1, lng1) of the last call
    distTo,             \* (lat2, lng2) of the last call
    distanceThere,      \* what it returned, in kilometres
    distanceBack,       \* what the call with the two points exchanged returned
    \* ---- App: the session ----
    appUser,            \* useState user of App (NoUser = null)
    storedUser,         \* localStorage 'user' (NoUser = absent)
    showDeviceModal,    \* useState showDeviceModal
    deviceInfo,         \* useState deviceInfo ("none" = null)
    setups,             \* handleDeviceSetup calls awaiting the server, each with the user of its render
    loggedOut,          \* handleLogout has run, and neither handleLogin nor handleRegister since
    isLogin,            \* useState isLogin: the login form is shown, not the registration form
    connectionError,    \* useState connectionError ("" = none)
    \* ---- MapView: mapReady ----
    rendersAutoCenter,  \* MapView renders <InitialAutoCenter onMapReady={handleMapReady}/> (part_004), or does not (part_005 first MapView)
    readyDevices,       \* the devices prop of MapView: per device what its last_location holds
    hasCentered,        \* InitialAutoCenter hasCentered.current
    mapReady,           \* useState mapReady of MapView
    updaterMounted,     \* StableMapUpdater is mounted and its effect has run
    renderPending,      \* a prop or a state of MapView changed, the render is to come
    effectPending       \* MapView has rendered, the effect of InitialAutoCenter is to run

dashVars == <<mounted, epoch, devices, currentDeviceId, locationStatus, capCur, capDevs,
              capStatus, handles, trackers, watcherRef, intervalRef, nextHandle, nextSid,
              initPending, fetches, uploads, oneshots, fbPending, timers, now, isMobile,
              geolocation, server>>
geoVars == <<origin, probe, section, inCampus>>
mapVars == <<refInteracting, userInteracting, interactionTimer, mapTimers, nextTimer,
             open, lastEnd, mapNow>>
netVars == <<netIdx, netAsked, netLog, netResult, lastKnown>>
gpsVars == <<gpsNow, gpsCandidate, gpsAccepted, lastPosition, gpsUploads, gpsDevices,
             gpsServer>>
zoneVars == <<zoneOrigin, polyA, polyB, overlaps, noOverlaps>>
viewVars == <<viewNow, viewDevices, viewInteracting, lastDeviceCount, lastDevicePositions,
              updateInProgress, viewTimers, mapZoom, flight, viewMounted, decision>>
campVars == <<campMounted, campDevices, campUser, saved, campusCenterLocation, firstDevice,
              campusManager, userCampus, built>>
pollVars == <<failures, polledAfterFailure>>
distVars == <<distFrom, distTo, distanceThere, distanceBack>>
appVars == <<appUser, storedUser, showDeviceModal, deviceInfo, setups, loggedOut, isLogin,
             connectionError>>
readyVars == <<rendersAutoCenter, readyDevices, hasCentered, mapReady, updaterMounted, renderPending, effectPending>>
vars == <<dashVars, geoVars, mapVars, netVars, gpsVars, zoneVars, viewVars, campVars,
          pollVars, distVars, appVars, readyVars>>

-----------------------------------------------------------------------------
(* Bounds of the model *)

\* the clock stops at MaxClock
MaxClock == 2
\* ids the browser hands out for watches and interval timers
MaxHandles == 2
\* tracking sessions started
MaxSessions == 2
\* runs of the [user] effect (1 = the mount, more = the user object changed)
MaxEpoch == 2
\* location uploads in flight at once
MaxUploads == 1
\* snapshot fetches in flight at once
MaxFetches == 1
\* failed fetches counted
MaxFailures == 2
\* positioning requests / fallback starts / downgrade timeouts pending at once
MaxPending == 1

-----------------------------------------------------------------------------
(* Dashboard: data *)

Own == "d1"
Devices == {"d1", "d2"}

NoLoc == [origin |-> "none", ts |-> 0, is_mobile |-> FALSE]
HasLoc(l) == l.origin # "none"

NoTracker == [type |-> "none", id |-> 0]

\* The record the server holds for a device of another kind than this client's:
\* the second device of the account is of the other kind.
SrvMobile(d) == IF d = Own THEN isMobile ELSE ~isMobile

\* A device record as /devices/<email> delivers it at time t.
SnapshotRecord(d, t) ==
    [device_id |-> d, last_updated |-> t, is_mobile |-> SrvMobile(d),
     last_location |-> [origin |-> "server", ts |-> t, is_mobile |-> SrvMobile(d)]]

Ids(devs) == {devs[i].device_id : i \in 1..Len(devs)}

\* devices.find(d => d.device_id === id): index of the first match, 0 if none
FindIdx(devs, id) ==
    IF \E i \in 1..Len(devs) : devs[i].device_id = id
    THEN CHOOSE i \in 1..Len(devs) :
            /\ devs[i].device_id = id
            /\ \A j \in 1..(i-1) : devs[j].device_id # id
    ELSE 0

Rec(devs, id) == devs[FindIdx(devs, id)]

\* fetchDevices, data.map(...): the snapshot with last_location.is_mobile carried
\* over from the devices the closure captured
MergeSnapshot(data, existing) ==
    [i \in 1..Len(data) |->
        LET device == data[i]
            k == FindIdx(existing, device.device_id)
        IN IF k # 0 /\ HasLoc(existing[k].last_location) /\ HasLoc(device.last_location)
           THEN [device EXCEPT !.last_location.is_mobile = existing[k].last_location.is_mobile]
           ELSE device]

\* updateDeviceLocation rebuilding the list with the updated device last
ApplyLiveMoved(prevDevices, deviceId, location, t) ==
    LET others == SelectSeq(prevDevices, LAMBDA device : device.device_id # deviceId)
    IN Append(others,
              [device_id |-> deviceId, last_updated |-> t,
               is_mobile |-> location.is_mobile, last_location |-> location])

\* updateDeviceLocation, the updater handed to setDevices
ApplyLive(prevDevices, deviceId, location, t) ==
    LET updatedDevices ==
            [i \in 1..Len(prevDevices) |->
                IF prevDevices[i].device_id = deviceId
                THEN [prevDevices[i] EXCEPT !.last_location = location,
                                            !.last_updated = t,
                                            !.is_mobile = location.is_mobile]
                ELSE prevDevices[i]]
        deviceExists == \E i \in 1..Len(updatedDevices) : updatedDevices[i].device_id = deviceId
    IN IF ~deviceExists
       THEN Append(updatedDevices,
                   [device_id |-> deviceId, last_updated |-> t,
                    is_mobile |-> location.is_mobile, last_location |-> location])
       ELSE updatedDevices

\* A state setter of an unmounted component changes nothing.
SetState(old, new) == IF mounted THEN new ELSE old

-----------------------------------------------------------------------------
(* Dashboard: tracking sessions.  The start functions call one another, so   *)
(* they are operators on the record T of everything they read and write.     *)

Trk == [handles |-> handles, trackers |-> trackers, watcherRef |-> watcherRef,
        intervalRef |-> intervalRef, status |-> locationStatus, oneshots |-> oneshots,
        fbPending |-> fbPending, nextHandle |-> nextHandle, nextSid |-> nextSid]

Commit(T) ==
    /\ handles' = T.handles
    /\ trackers' = T.trackers
    /\ watcherRef' = T.watcherRef
    /\ intervalRef' = T.intervalRef
    /\ locationStatus' = SetState(locationStatus, T.status)
    /\ oneshots' = T.oneshots
    /\ fbPending' = T.fbPending
    /\ nextHandle' = T.nextHandle
    /\ nextSid' = T.nextSid

Fits(T) ==
    /\ T.nextHandle <= MaxHandles + 1
    /\ T.nextSid <= MaxSessions + 1
    /\ Cardinality(T.oneshots) <= MaxPending
    /\ Cardinality(T.fbPending) <= MaxPending

\* a tag that keeps two pending calls of the same session apart
FreshK(S) == CHOOSE k \in 1..(Cardinality(S) + 1) : \A p \in S : p.k # k

\* c is the closure context of the caller: the device, the session, the effect run
\* that created the closure, and the locationStatus that render saw
Ctx(dev, sid, ep, cs) == [dev |-> dev, sid |-> sid, ep |-> ep, cs |-> cs]

Handle(T, kind, role, c) ==
    [id |-> T.nextHandle, kind |-> kind, role |-> role,
     dev |-> c.dev, sid |-> c.sid, ep |-> c.ep, cs |-> c.cs]

OneShot(T, role, c) ==
    [k |-> FreshK(T.oneshots), role |-> role,
     dev |-> c.dev, sid |-> c.sid, ep |-> c.ep, cs |-> c.cs]

\* startFallbackLocationTracking up to its first await, at time t0: the network lookup
\* of the immediate update is in flight
startFallbackLocationTracking(T, c) ==
    [T EXCEPT !.fbPending = @ \cup {[k |-> FreshK(T.fbPending), t0 |-> now,
                                     dev |-> c.dev, sid |-> c.sid, ep |-> c.ep, cs |-> c.cs]}]

startLaptopLocationTracking(T, c) ==
    IF ~geolocation
    THEN startFallbackLocationTracking([T EXCEPT !.status = "tracking_fallback"], c)
    ELSE [T EXCEPT !.status = "tracking_laptop",
                   !.oneshots = @ \cup {OneShot(T, "laptop", c)},
                   !.handles = @ \cup {Handle(T, "watch", "laptop", c)},
                   !.trackers[c.dev] = [type |-> "gps", id |-> T.nextHandle],
                   !.nextHandle = @ + 1]

startMobileGPSTracking(T, c) ==
    IF ~geolocation
    THEN startLaptopLocationTracking(T, c)
    ELSE [T EXCEPT !.status = "tracking_mobile_gps",
                   !.oneshots = @ \cup {OneShot(T, "mobile", c)},
                   !.handles = @ \cup {Handle(T, "watch", "mobile", c)},
                   !.watcherRef = T.nextHandle,
                   !.trackers[c.dev] = [type |-> "gps", id |-> T.nextHandle],
                   !.nextHandle = @ + 1]

startIndependentLocationTracking(T, c) ==
    LET T1 == IF isMobile THEN startMobileGPSTracking(T, c)
                          ELSE startLaptopLocationTracking(T, c)
    IN [T1 EXCEPT !.nextSid = @ + 1]

startAdditionalMobileTracking(T, c) ==
    IF ~geolocation
    THEN T
    ELSE [T EXCEPT !.handles = @ \cup {Handle(T, "watch", "mobile_additional", c)},
                   !.trackers[c.dev] = [type |-> "gps", id |-> T.nextHandle],
                   !.nextHandle = @ + 1]

startAdditionalLaptopTracking(T, c) ==
    IF ~geolocation
    THEN startFallbackLocationTracking(T, c)
    ELSE [T EXCEPT !.handles = @ \cup {Handle(T, "watch", "laptop_additional", c)},
                   !.trackers[c.dev] = [type |-> "gps", id |-> T.nextHandle],
                   !.nextHandle = @ + 1]

\* a session number is used up only by a start that set something going
startAdditionalDeviceTracking(T, c, deviceIsMobile) ==
    LET T1 == IF deviceIsMobile THEN startAdditionalMobileTracking(T, c)
                                ELSE startAdditionalLaptopTracking(T, c)
    IN IF T1 = T THEN T ELSE [T1 EXCEPT !.nextSid = @ + 1]

\* fetchDevices, updatedDevices.forEach(...): devices from index i on
RECURSIVE StartUntracked(_, _, _, _)
StartUntracked(T, updatedDevices, i, f) ==
    IF i > Len(updatedDevices)
    THEN T
    ELSE LET device == updatedDevices[i]
             T1 == IF /\ T.trackers[device.device_id].type = "none"
                      /\ device.device_id # f.capCur
                   THEN startAdditionalDeviceTracking(
                            T, Ctx(device.device_id, T.nextSid, f.ep, f.cs), device.is_mobile)
                   ELSE T
         IN StartUntracked(T1, updatedDevices, i + 1, f)

\* clearWatch(id) / clearInterval(id)
Clear(hs, kind, id) == {h \in hs : ~(h.kind = kind /\ h.id = id)}

ClearTracker(hs, tracker) ==
    IF tracker.type = "gps" THEN Clear(hs, "watch", tracker.id)
    ELSE IF tracker.type = "interval" THEN Clear(hs, "interval", tracker.id)
    ELSE hs

RECURSIVE ClearTrackers(_, _, _)
ClearTrackers(hs, trk, ds) ==
    IF ds = {} THEN hs
    ELSE LET d == CHOOSE x \in ds : TRUE
         IN ClearTrackers(ClearTracker(hs, trk[d]), trk, ds \ {d})

stopAllLocationTracking(T) ==
    LET h1 == IF T.watcherRef # 0 THEN Clear(T.handles, "watch", T.watcherRef) ELSE T.handles
        h2 == IF T.intervalRef # 0 THEN Clear(h1, "interval", T.intervalRef) ELSE h1
    IN [T EXCEPT !.handles = ClearTrackers(h2, T.trackers, Devices),
                 !.trackers = [d \in Devices |-> NoTracker]]

-----------------------------------------------------------------------------
(* Dashboard: operations *)

Live(role, ts) ==
    [origin |-> "local", ts |-> ts,
     is_mobile |-> (role \in {"mobile", "mobile_additional"})]

Upload(c, location) == [dev |-> c.dev, ep |-> c.ep, loc |-> location]

CtxOf(x) == Ctx(x.dev, x.sid, x.ep, x.cs)

otherOfDash == <<geoVars, mapVars, netVars, gpsVars, zoneVars, viewVars, campVars, pollVars,
                 distVars, appVars, readyVars>>
otherOfGeo == <<dashVars, mapVars, netVars, gpsVars, zoneVars, viewVars, campVars, pollVars,
                distVars, appVars, readyVars>>
otherOfMap == <<dashVars, geoVars, netVars, gpsVars, zoneVars, viewVars, campVars, pollVars,
                distVars, appVars, readyVars>>
otherOfNet == <<dashVars, geoVars, mapVars, gpsVars, zoneVars, viewVars, campVars, pollVars,
                distVars, appVars, readyVars>>
otherOfGps == <<dashVars, geoVars, mapVars, netVars, zoneVars, viewVars, campVars, pollVars,
                distVars, appVars, readyVars>>
otherOfZone == <<dashVars, geoVars, mapVars, netVars, gpsVars, viewVars, campVars, pollVars,
                 distVars, appVars, readyVars>>
otherOfView == <<dashVars, geoVars, mapVars, netVars, gpsVars, zoneVars, campVars, pollVars,
                 distVars, appVars, readyVars>>
otherOfCamp == <<dashVars, geoVars, mapVars, netVars, gpsVars, zoneVars, viewVars, pollVars,
                 distVars, appVars, readyVars>>
otherOfPoll == <<geoVars, mapVars, netVars, gpsVars, zoneVars, viewVars, campVars, distVars,
                 appVars, readyVars>>
otherOfDist == <<dashVars, geoVars, mapVars, netVars, gpsVars, zoneVars, viewVars, campVars,
                 pollVars, appVars, readyVars>>
otherOfApp == <<dashVars, geoVars, mapVars, netVars, gpsVars, zoneVars, viewVars, campVars,
                pollVars, distVars, readyVars>>
otherOfReady == <<dashVars, geoVars, mapVars, netVars, gpsVars, zoneVars, viewVars, campVars,
                  pollVars, distVars, appVars>>

trackVars == <<handles, trackers, watcherRef, intervalRef, locationStatus, oneshots,
               fbPending, nextHandle, nextSid>>
envVars == <<isMobile, geolocation>>
capVars == <<capCur, capDevs, capStatus>>

\* the order in which the server lists the devices of the account
DeviceOrder == <<"d1", "d2">>

\* /devices/<email>: the devices listed on the server, as records
ServerList(srv) ==
    LET listed == SelectSeq(DeviceOrder, LAMBDA d : srv[d] >= 0)
    IN [i \in 1..Len(listed) |-> SnapshotRecord(listed[i], srv[listed[i]])]

\* the server's side of a request for device d: another client of the account
\* registers d or uploads a location for it (v = now), or d leaves the account's
\* list (v = -1)
ServerChange(d, v) ==
    /\ v \in {-1, now}
    /\ v # server[d]
    /\ server' = [server EXCEPT ![d] = v]
    /\ UNCHANGED <<mounted, epoch, devices, currentDeviceId, capVars, trackVars,
                   initPending, fetches, uploads, timers, now, envVars>>

\* new Date() moves on
Tick ==
    /\ now < MaxClock
    /\ now' = now + 1
    /\ UNCHANGED <<mounted, epoch, devices, currentDeviceId, capVars, trackVars,
                   initPending, fetches, uploads, timers, envVars, server>>

\* the 2 s devicesInterval fires: fetchDevices up to its await; the server answers
\* with its list of that moment, and the answer is under way
PollTick ==
    LET f == [ep |-> epoch, capCur |-> capCur, capDevs |-> capDevs, cs |-> capStatus,
              data |-> ServerList(server)]
    IN /\ mounted
       /\ Cardinality(fetches) < MaxFetches
       /\ f \notin fetches
       /\ fetches' = fetches \cup {f}
       /\ UNCHANGED <<mounted, epoch, devices, currentDeviceId, capVars, trackVars,
                      initPending, uploads, timers, now, envVars, server>>

\* fetchDevices after its await: the snapshot f.data has arrived
fetchDevices(f) ==
    LET updatedDevices == MergeSnapshot(f.data, f.capDevs)
        T == StartUntracked(Trk, updatedDevices, 1, f)
    IN /\ f \in fetches
       /\ Fits(T)
       /\ fetches' = fetches \ {f}
       /\ devices' = SetState(devices, updatedDevices)
       /\ Commit(T)
       /\ UNCHANGED <<mounted, epoch, currentDeviceId, capVars, initPending, uploads,
                      timers, now, envVars, server>>

\* fetchDevices with a catch block that empties the list
fetchDevicesFailedCleared(f) ==
    /\ f \in fetches
    /\ fetches' = fetches \ {f}
    /\ devices' = SetState(devices, <<>>)
    /\ UNCHANGED <<mounted, epoch, currentDeviceId, capVars, trackVars,
                   initPending, uploads, timers, now, envVars, server>>

\* fetchDevices, the request failed: the catch block
fetchDevicesFailed(f) ==
    /\ f \in fetches
    /\ fetches' = fetches \ {f}
    /\ UNCHANGED <<mounted, epoch, devices, currentDeviceId, capVars, trackVars,
                   initPending, uploads, timers, now, envVars, server>>

\* initializeDeviceTracking after `await checkDeviceExists(deviceId)`, which answers
\* false when its request fails
initializeDeviceTracking(p, deviceExists) ==
    LET T == IF deviceExists
             THEN startIndependentLocationTracking(Trk, Ctx(Own, nextSid, p.ep, p.cs))
             ELSE [Trk EXCEPT !.status = "waiting_for_setup"]
    IN /\ p \in initPending
       /\ deviceExists => p.exists
       /\ Fits(T)
       /\ initPending' = initPending \ {p}
       /\ Commit(T)
       /\ UNCHANGED <<mounted, epoch, devices, currentDeviceId, capVars, fetches, uploads,
                      timers, now, envVars, server>>

\* a watchPosition success callback up to the await in updateDeviceLocation
WatchPosition(h) ==
    LET u == Upload(h, Live(h.role, now))
    IN /\ h \in handles
       /\ h.kind = "watch"
       /\ Cardinality(uploads) < MaxUploads
       /\ u \notin uploads
       /\ uploads' = uploads \cup {u}
       /\ UNCHANGED <<mounted, epoch, devices, currentDeviceId, capVars, trackVars,
                      initPending, fetches, timers, now, envVars, server>>

\* a watchPosition error callback (that of the additional mobile watch only logs)
WatchError(h) ==
    LET T == IF h.role = "mobile" THEN Trk
             ELSE IF h.role = "laptop"
             THEN startFallbackLocationTracking([Trk EXCEPT !.status = "tracking_fallback"],
                                                CtxOf(h))
             ELSE startFallbackLocationTracking(Trk, CtxOf(h))
        t == [k |-> FreshK(timers), dev |-> h.dev, sid |-> h.sid, ep |-> h.ep, cs |-> h.cs]
    IN /\ h \in handles
       /\ h.kind = "watch"
       /\ h.role # "mobile_additional"
       /\ Fits(T)
       /\ Commit(T)
       /\ Cardinality(timers) < MaxPending
       /\ timers' = IF h.role = "mobile" THEN timers \cup {t} ELSE timers
       /\ UNCHANGED <<mounted, epoch, devices, currentDeviceId, capVars, initPending,
                      fetches, uploads, now, envVars, server>>

\* the 30 s timeout set by the mobile watch's error callback fires
DowngradeTimeout(t) ==
    LET T == IF t.cs = "tracking_mobile_gps"
             THEN startLaptopLocationTracking(Trk, CtxOf(t))
             ELSE Trk
    IN /\ t \in timers
       /\ Fits(T)
       /\ timers' = timers \ {t}
       /\ Commit(T)
       /\ UNCHANGED <<mounted, epoch, devices, currentDeviceId, capVars, initPending,
                      fetches, uploads, now, envVars, server>>

\* getCurrentPosition succeeds: up to the await in updateDeviceLocation
OneShotPosition(o) ==
    LET u == Upload(o, Live(o.role, now))
    IN /\ o \in oneshots
       /\ Cardinality(uploads) < MaxUploads
       /\ u \notin uploads
       /\ uploads' = uploads \cup {u}
       /\ oneshots' = oneshots \ {o}
       /\ UNCHANGED <<mounted, epoch, devices, currentDeviceId, capVars, handles, trackers,
                      watcherRef, intervalRef, locationStatus, fbPending, nextHandle,
                      nextSid, initPending, fetches, timers, now, envVars, server>>

\* getCurrentPosition fails
OneShotError(o) ==
    LET T0 == [Trk EXCEPT !.oneshots = @ \ {o}]
        T == IF o.role = "mobile"
             THEN startLaptopLocationTracking(T0, CtxOf(o))
             ELSE startFallbackLocationTracking([T0 EXCEPT !.status = "tracking_fallback"],
                                                CtxOf(o))
    IN /\ o \in oneshots
       /\ Fits(T)
       /\ Commit(T)
       /\ UNCHANGED <<mounted, epoch, devices, currentDeviceId, capVars, initPending,
                      fetches, uploads, timers, now, envVars, server>>

\* startFallbackLocationTracking after `await updateLocation()`: getNetworkBasedLocation
\* returned at time ts (it never throws), the immediate update was applied (ok) or
\* failed, and the 30 s interval is set up
FallbackStarted(p, ts, ok) ==
    LET T == [Trk EXCEPT !.fbPending = @ \ {p},
                         !.handles = @ \cup {Handle(Trk, "interval", "fallback", CtxOf(p))},
                         !.intervalRef = Trk.nextHandle,
                         !.trackers[p.dev] = [type |-> "interval", id |-> Trk.nextHandle],
                         !.nextHandle = @ + 1]
    IN /\ p \in fbPending
       /\ ts \in p.t0..now
       /\ ok => server[p.dev] >= 0
       /\ Fits(T)
       /\ Commit(T)
       /\ devices' = IF ok THEN SetState(devices, ApplyLive(devices, p.dev, Live("fallback", ts), now))
                           ELSE devices
       /\ server' = IF ok THEN [server EXCEPT ![p.dev] = now] ELSE server
       /\ UNCHANGED <<mounted, epoch, currentDeviceId, capVars, initPending, fetches,
                      uploads, timers, now, envVars>>

\* the 30 s fallback interval fires: the lookup has returned, up to the await in
\* updateDeviceLocation
IntervalTick(h) ==
    LET u == Upload(h, Live(h.role, now))
    IN /\ h \in handles
       /\ h.kind = "interval"
       /\ Cardinality(uploads) < MaxUploads
       /\ u \notin uploads
       /\ uploads' = uploads \cup {u}
       /\ UNCHANGED <<mounted, epoch, devices, currentDeviceId, capVars, trackVars,
                      initPending, fetches, timers, now, envVars, server>>

\* live samples under way at once when the list is looked at on its own
MaxLive == 2

\* a success callback of one of the trackers of device d (a watch of the given role),
\* up to the await in updateDeviceLocation
SampleArrived(d, role) ==
    LET u == [dev |-> d, ep |-> epoch, loc |-> Live(role, now)]
    IN /\ mounted
       /\ Cardinality(uploads) < MaxLive
       /\ u \notin uploads
       /\ uploads' = uploads \cup {u}
       /\ UNCHANGED <<mounted, epoch, devices, currentDeviceId, capVars, trackVars,
                      initPending, fetches, timers, now, envVars, server>>

\* updateDeviceLocation that adds the device to the list without looking for it
updateDeviceLocationAppended(u) ==
    /\ u \in uploads
    /\ server[u.dev] >= 0
    /\ uploads' = uploads \ {u}
    /\ devices' = SetState(devices,
                           Append(devices, [device_id |-> u.dev, last_updated |-> now,
                                            is_mobile |-> u.loc.is_mobile,
                                            last_location |-> u.loc]))
    /\ server' = [server EXCEPT ![u.dev] = now]
    /\ UNCHANGED <<mounted, epoch, currentDeviceId, capVars, trackVars, initPending,
                   fetches, timers, now, envVars>>

\* updateDeviceLocation after its await: the server, which lists the device, accepted
\* the location
updateDeviceLocation(u) ==
    /\ u \in uploads
    /\ server[u.dev] >= 0
    /\ uploads' = uploads \ {u}
    /\ devices' = SetState(devices, ApplyLive(devices, u.dev, u.loc, now))
    /\ server' = [server EXCEPT ![u.dev] = now]
    /\ UNCHANGED <<mounted, epoch, currentDeviceId, capVars, trackVars, initPending,
                   fetches, timers, now, envVars>>

\* updateDeviceLocation that puts the sample into the list before the server's answer
updateDeviceLocationOptimistic(u) ==
    /\ u \in uploads
    /\ uploads' = uploads \ {u}
    /\ devices' = SetState(devices, ApplyLive(devices, u.dev, u.loc, now))
    /\ UNCHANGED <<mounted, epoch, currentDeviceId, capVars, trackVars,
                   initPending, fetches, timers, now, envVars, server>>

\* updateDeviceLocation: apiRequest threw (no connection, or a response that is not ok)
updateDeviceLocationFailed(u) ==
    /\ u \in uploads
    /\ uploads' = uploads \ {u}
    /\ UNCHANGED <<mounted, epoch, devices, currentDeviceId, capVars, trackVars,
                   initPending, fetches, timers, now, envVars, server>>

\* the body of the [user] effect, run by a render that saw cur, devs and status:
\* initializeDeviceTracking and fetchDevices up to their awaits
EffectBody(ep, cur, devs, status, srv) ==
    /\ epoch' = ep
    /\ capCur' = cur
    /\ capDevs' = devs
    /\ capStatus' = status
    /\ currentDeviceId' = Own
    /\ initPending' = initPending \cup {[ep |-> ep, cs |-> status, exists |-> srv[Own] >= 0]}
    /\ fetches' = fetches \cup {[ep |-> ep, capCur |-> cur, capDevs |-> devs, cs |-> status,
                                  data |-> ServerList(srv)]}

\* handleDeviceSetup: /create_or_update_device has listed the client's device, the
\* user object changed: the effect's cleanup runs, then the effect again
UserChanged ==
    /\ mounted
    /\ epoch < MaxEpoch
    /\ Cardinality(fetches) < MaxFetches
    /\ Cardinality(initPending) < MaxPending
    /\ server' = [server EXCEPT ![Own] = IF @ < 0 THEN now ELSE @]
    /\ Commit(stopAllLocationTracking(Trk))
    /\ EffectBody(epoch + 1, currentDeviceId, devices, locationStatus, server')
    /\ UNCHANGED <<mounted, devices, uploads, timers, now, envVars>>

\* logout: the Dashboard unmounts and the effect's cleanup runs
Unmount ==
    /\ mounted
    /\ mounted' = FALSE
    /\ Commit(stopAllLocationTracking(Trk))
    /\ UNCHANGED <<epoch, devices, currentDeviceId, capVars, initPending, fetches, uploads,
                   timers, now, envVars, server>>

-----------------------------------------------------------------------------
(* CampusManager.  One unit is 0.000001125 degrees. *)

\* baseSize = 0.0000225 degrees
BaseSize == 20
\* config.CAMPUS_SETTINGS.CAMPUS_WIDTH = 0.00018 degrees
CampusWidth == 160
\* config.CAMPUS_SETTINGS.CAMPUS_HEIGHT = 0.00018 degrees
CampusHeight == 160

\* { latitude: 6.9271, longitude: 79.8612 }
DefaultOrigin == [latitude |-> 6157422, longitude |-> 70987733]

\* null, where a location is expected
NoOrigin == [missing |-> TRUE]

\* campusBounds = [southWest, northEast], each [lat, lng]; a missing userLocation is
\* replaced by the default first (line 21)
generateCampusBounds(userLocation) ==
    LET location == IF userLocation = NoOrigin THEN DefaultOrigin ELSE userLocation
    IN <<  <<location.latitude - (CampusHeight \div 2),
             location.longitude - (CampusWidth \div 2)>>,
           <<location.latitude + (CampusHeight \div 2),
             location.longitude + (CampusWidth \div 2)>>  >>

\* generateCampusBounds of the class of line 832: a missing campusCenterLocation gives
\* [[6.9270, 79.8610], [6.9272, 79.8612]]
generateCampusBoundsCenter(center) ==
    IF center = NoOrigin
    THEN <<  <<6157333, 70987556>>, <<6157511, 70987733>>  >>
    ELSE <<  <<center.latitude - (CampusHeight \div 2),
               center.longitude - (CampusWidth \div 2)>>,
             <<center.latitude + (CampusHeight \div 2),
               center.longitude + (CampusWidth \div 2)>>  >>

\* a closed ring of five [lat, lng] vertices
generateRectangle(centerLat, centerLng, offsetLat, offsetLng, width, height) ==
    LET lat == centerLat + offsetLat
        lng == centerLng + offsetLng
    IN <<  <<lat - (height \div 2), lng - (width \div 2)>>,
           <<lat - (height \div 2), lng + (width \div 2)>>,
           <<lat + (height \div 2), lng + (width \div 2)>>,
           <<lat + (height \div 2), lng - (width \div 2)>>,
           <<lat - (height \div 2), lng - (width \div 2)>>  >>

\* the four sections, in definition order; 12 * BaseSize \div 10 is baseSize * 1.2
generateCampusSections(campusBounds) ==
    LET southWest == campusBounds[1]
        northEast == campusBounds[2]
        centerLat == (southWest[1] + northEast[1]) \div 2
        centerLng == (southWest[2] + northEast[2]) \div 2
        off == (12 * BaseSize) \div 10
    IN <<  [id |-> "library",
            coordinates |-> generateRectangle(centerLat, centerLng, off, -off,
                                              BaseSize * 2, (BaseSize * 18) \div 10)],
           [id |-> "lab",
            coordinates |-> generateRectangle(centerLat, centerLng, off, off,
                                              (BaseSize * 25) \div 10, BaseSize * 2)],
           [id |-> "classroom",
            coordinates |-> generateRectangle(centerLat, centerLng, -off, -off,
                                              (BaseSize * 18) \div 10, (BaseSize * 16) \div 10)],
           [id |-> "admin",
            coordinates |-> generateRectangle(centerLat, centerLng, -off, off,
                                              BaseSize * 2, (BaseSize * 18) \div 10)]  >>

\* new CampusManager(userLocation)
CampusManager(userLocation) ==
    LET bounds == generateCampusBounds(userLocation)
    IN [campusBounds |-> bounds, sections |-> generateCampusSections(bounds)]

\* new CampusManager(campusCenterLocation), the class of line 832
CampusManagerCenter(center) ==
    LET bounds == generateCampusBoundsCenter(center)
    IN [campusBounds |-> bounds, sections |-> generateCampusSections(bounds)]

\* isInCampus with the edges left out
isInCampusStrict(campus, lat, lng) ==
    LET southWest == campus.campusBounds[1]
        northEast == campus.campusBounds[2]
    IN /\ lat > southWest[1]
       /\ lat < northEast[1]
       /\ lng > southWest[2]
       /\ lng < northEast[2]

\* isInCampus(lat, lng); campusBounds is never null
isInCampus(campus, lat, lng) ==
    LET southWest == campus.campusBounds[1]
        northEast == campus.campusBounds[2]
    IN /\ lat >= southWest[1]
       /\ lat <= northEast[1]
       /\ lng >= southWest[2]
       /\ lng <= northEast[2]

\* Math.abs
Abs(x) == IF x < 0 THEN -x ELSE x

\* a < n / d, in exact arithmetic, for d # 0
LessThanRatio(a, n, d) ==
    IF d > 0 THEN a < -((-n) \div d) ELSE a < -(n \div (-d))

\* the loop body of isPointInPolygon for the edge from vertex j to vertex i:
\* xi, xj are the vertices' longitudes ([1] of a vertex in the source, [2] here) and
\* yi, yj their latitudes
EdgeCrossed(lat, lng, polygon, i, j) ==
    LET xi == polygon[i][2]
        yi == polygon[i][1]
        xj == polygon[j][2]
        yj == polygon[j][1]
    IN /\ (yi > lng) # (yj > lng)
       /\ LessThanRatio(lat - xi, (xj - xi) * (lng - yi), yj - yi)

\* even-odd rule: inside iff an odd number of edges is crossed
isPointInPolygon(lat, lng, polygon) ==
    LET n == Len(polygon)
        crossed == {i \in 1..n : EdgeCrossed(lat, lng, polygon, i, IF i = 1 THEN n ELSE i - 1)}
    IN Cardinality(crossed) % 2 = 1

\* the id of the first section whose polygon holds the point, "none" for null
getCurrentSection(campus, lat, lng) ==
    LET hits == {i \in 1..Len(campus.sections) :
                    isPointInPolygon(lat, lng, campus.sections[i].coordinates)}
    IN IF hits = {} THEN "none"
       ELSE campus.sections[CHOOSE i \in hits : \A j \in hits : i <= j].id

\* the centre of a section's rectangle
Centroid(sec) ==
    [lat |-> (sec.coordinates[1][1] + sec.coordinates[3][1]) \div 2,
     lng |-> (sec.coordinates[1][2] + sec.coordinates[3][2]) \div 2]

\* origins a campus is built at: the default (Colombo), one on the diagonal
\* latitude = longitude (9 degrees), and one in the western hemisphere
\* (40.7128, -74.0060)
Origins ==
    {DefaultOrigin,
     [latitude |-> 8000000, longitude |-> 8000000],
     [latitude |-> 36189156, longitude |-> -65783111]}

\* distances of a probed point from a reference point, per axis: the section
\* centres (24), the campus edge (80), just outside it (81)
ProbeOffsets == {-81, -80, -24, 0, 24, 80, 81}

\* points classified: around the campus origin, and around the point whose
\* latitude is the origin's longitude and whose longitude is its latitude
Probes(o) ==
    {[lat |-> o.latitude + a, lng |-> o.longitude + b] : a, b \in ProbeOffsets}
      \cup {[lat |-> o.longitude + a, lng |-> o.latitude + b] : a, b \in ProbeOffsets}

\* 90 and 180 degrees
ValidPoint(pt) ==
    /\ pt.lat >= -80000000 /\ pt.lat <= 80000000
    /\ pt.lng >= -160000000 /\ pt.lng <= 160000000

\* MapView renders a device at pt: StableDevicesRenderer asks the campus manager
Classify(pt) ==
    /\ ValidPoint(pt)
    /\ probe' = pt
    /\ section' = getCurrentSection(CampusManager(origin), pt.lat, pt.lng)
    /\ inCampus' = isInCampus(CampusManager(origin), pt.lat, pt.lng)
    /\ UNCHANGED origin

\* MapView's campus effect: the effective user location changed, the campus is rebuilt
\* and the device last rendered is classified again
RebuildCampus(o) ==
    /\ o # origin
    /\ origin' = o
    /\ section' = getCurrentSection(CampusManager(o), probe.lat, probe.lng)
    /\ inCampus' = isInCampus(CampusManager(o), probe.lat, probe.lng)
    /\ UNCHANGED probe

-----------------------------------------------------------------------------
(* MapController and the userInteracting state of MapView.  Time is in seconds. *)

\* setTimeout(..., 2000)
Debounce == 2
\* the clock of the map stops at MaxMapClock
MaxMapClock == 4
\* timeouts set
MaxTimers == 3
\* interaction-start events open at once (mousedown, dragstart, movestart)
MaxOpen == 3

clearTimeout(ts, id) == {t \in ts : t.id # id}

\* movestart / dragstart / zoomstart / mousedown
handleInteractionStart ==
    /\ open < MaxOpen
    /\ open' = open + 1
    /\ refInteracting' = TRUE
    /\ userInteracting' = TRUE
    /\ mapTimers' = IF interactionTimer # 0 THEN clearTimeout(mapTimers, interactionTimer)
                                           ELSE mapTimers
    /\ UNCHANGED <<interactionTimer, nextTimer, lastEnd, mapNow>>

\* moveend / dragend / zoomend / mouseup
handleInteractionEnd ==
    /\ open > 0
    /\ nextTimer <= MaxTimers
    /\ open' = open - 1
    /\ lastEnd' = mapNow
    /\ mapTimers' = mapTimers \cup {[id |-> nextTimer, due |-> mapNow + Debounce]}
    /\ interactionTimer' = nextTimer
    /\ nextTimer' = nextTimer + 1
    /\ UNCHANGED <<refInteracting, userInteracting>>
    /\ UNCHANGED mapNow

\* the callback of a timeout set by handleInteractionEnd
InteractionTimeout(t) ==
    /\ t \in mapTimers
    /\ t.due <= mapNow
    /\ mapTimers' = mapTimers \ {t}
    /\ refInteracting' = FALSE
    /\ userInteracting' = FALSE
    /\ UNCHANGED <<interactionTimer, nextTimer, open, lastEnd, mapNow>>

\* MapView renders again (new devices, a state change): handleUserInteraction is a new
\* function, so MapController's effect is cleaned up and run again
MapControllerCleanup ==
    /\ interactionTimer # 0
    /\ \E t \in mapTimers : t.id = interactionTimer
    /\ mapTimers' = clearTimeout(mapTimers, interactionTimer)
    /\ UNCHANGED <<refInteracting, userInteracting, interactionTimer, nextTimer, open,
                   lastEnd, mapNow>>

\* a second passes; a timeout that is due fires first
MapTick ==
    /\ mapNow < MaxMapClock
    /\ \A t \in mapTimers : t.due > mapNow
    /\ mapNow' = mapNow + 1
    /\ UNCHANGED <<refInteracting, userInteracting, interactionTimer, mapTimers, nextTimer,
                   open, lastEnd>>

-----------------------------------------------------------------------------
(* getNetworkBasedLocation.  Coordinates in the units of the campus. *)

\* the services array
Services == <<"ipapi.co", "api.ipgeolocation.io", "extreme-ip-lookup.com">>

\* (Math.random() - 0.5) * 0.001 lies within 0.0005 degrees of 0
JitterHalf == 444
Jitters == {-JitterHalf, 0, JitterHalf}

\* the position service k reports when it reports one (each service its own)
ServicePosition(k) == [latitude |-> 1000000 * k, longitude |-> 2000000 * k]

\* what can come back from fetch(service k): the fetch throws, the response is not ok,
\* or it is ok and its JSON has latitude and longitude, each present or absent (0)
Answers(k) ==
    {[kind |-> "throw", latitude |-> 0, longitude |-> 0],
     [kind |-> "notok", latitude |-> 0, longitude |-> 0]}
      \cup {[kind |-> "ok", latitude |-> a, longitude |-> b] :
                a \in {0, ServicePosition(k).latitude},
                b \in {0, ServicePosition(k).longitude}}

\* response.ok && data.latitude && data.longitude
Succeeds(r) == r.kind = "ok" /\ r.latitude # 0 /\ r.longitude # 0

\* the location returned from inside the loop
NetworkIp(r) ==
    [latitude |-> r.latitude, longitude |-> r.longitude, accuracy |-> 1000,
     location_type |-> "network_ip", source |-> "network_geolocation", is_mobile |-> FALSE]

\* a fallback three times as far from the default
NetworkFallbackFar(jLat, jLng) ==
    [latitude |-> DefaultOrigin.latitude + 3 * jLat,
     longitude |-> DefaultOrigin.longitude + 3 * jLng,
     accuracy |-> 5000,
     location_type |-> "network_fallback", source |-> "fallback", is_mobile |-> FALSE]

\* the location returned after the loop
NetworkFallback(jLat, jLng) ==
    [latitude |-> DefaultOrigin.latitude + jLat, longitude |-> DefaultOrigin.longitude + jLng,
     accuracy |-> 5000,
     location_type |-> "network_fallback", source |-> "fallback", is_mobile |-> FALSE]

\* a loop that goes on to the next service whatever the answer
AfterAnswerNoStop(k, r) ==
    IF k < Len(Services) THEN "next"
    ELSE IF Succeeds(r) THEN "return"
    ELSE "exhausted"

\* the loop after the answer r of service k: return, go on to the next service, or
\* leave the loop
AfterAnswer(k, r) ==
    IF Succeeds(r) THEN "return"
    ELSE IF k < Len(Services) THEN "next"
    ELSE "exhausted"

\* positions a device was last seen at: none, the default, or far from it
NoPosition == [known |-> FALSE, latitude |-> 0, longitude |-> 0]
LastKnowns ==
    {NoPosition,
     [known |-> TRUE, latitude |-> DefaultOrigin.latitude, longitude |-> DefaultOrigin.longitude],
     [known |-> TRUE, latitude |-> 36189156, longitude |-> -65783111]}

\* the call has not returned
NoResult ==
    [latitude |-> 0, longitude |-> 0, accuracy |-> 0,
     location_type |-> "none", source |-> "none", is_mobile |-> FALSE]

\* a caller (the fallback interval, the manual refresh) calls getNetworkBasedLocation:
\* the first service is fetched
NetCall ==
    /\ netIdx = 0
    /\ netResult = NoResult
    /\ netIdx' = 1
    /\ netAsked' = <<1>>
    /\ UNCHANGED <<netLog, netResult, lastKnown>>

\* fetch(service netIdx) settles with r
NetAnswer(r, jLat, jLng) ==
    LET k == netIdx
        todo == AfterAnswer(k, r)
    IN /\ k # 0
       /\ r \in Answers(k)
       /\ netLog' = Append(netLog, r)
       /\ netIdx' = IF todo = "next" THEN k + 1 ELSE 0
       /\ netAsked' = IF todo = "next" THEN Append(netAsked, k + 1) ELSE netAsked
       /\ netResult' = IF todo = "return" THEN NetworkIp(r)
                       ELSE IF todo = "exhausted" THEN NetworkFallback(jLat, jLng)
                       ELSE netResult
       /\ UNCHANGED lastKnown

\* the caller takes the location and uploads it; by the next call the device's
\* last-known position may be any
NetTaken(known) ==
    /\ netResult # NoResult
    /\ netResult' = NoResult
    /\ netAsked' = <<>>
    /\ netLog' = <<>>
    /\ lastKnown' = known
    /\ UNCHANGED netIdx

NetIdle ==
    /\ netIdx = 0 /\ netAsked = <<>> /\ netLog = <<>> /\ netResult = NoResult
    /\ lastKnown = NoPosition

-----------------------------------------------------------------------------
(* Live samples: from the browser's position to the device list *)

\* the samples one run processes, and the uploads that may await the server at once
MaxSamples == 3
MaxInflight == 2

\* Number.NaN, as a coordinate no number equals
NaN == -(2^30)
isNaN(x) == x = NaN

\* position.coords as the browser delivers them: coordinates in units of
\* 0.000001125 degrees, heading in degrees, speed in 0.1 m/s
Coords(lat, lng, heading, speed) ==
    [latitude |-> lat, longitude |-> lng, heading |-> heading, speed |-> speed]

\* the positions the browser delivers: at the default origin, 1 unit (0.125 m) and
\* 80 units (10 m) north of it, turned by 90 degrees, moving at 2 m/s; and the positions
\* no device is at: zero-zero, a NaN latitude, a latitude of 91 degrees
Candidates ==
    { Coords(DefaultOrigin.latitude, DefaultOrigin.longitude, 0, 0),
      Coords(DefaultOrigin.latitude + 1, DefaultOrigin.longitude, 0, 0),
      Coords(DefaultOrigin.latitude + 80, DefaultOrigin.longitude, 0, 0),
      Coords(DefaultOrigin.latitude, DefaultOrigin.longitude, 90, 0),
      Coords(DefaultOrigin.latitude, DefaultOrigin.longitude, 0, 20),
      Coords(0, 0, 0, 0),
      Coords(NaN, DefaultOrigin.longitude, 0, 0),
      Coords(80888889, DefaultOrigin.longitude, 0, 0) }

\* a GeolocationPosition: coords and timestamp
Position(c, t) ==
    [latitude |-> c.latitude, longitude |-> c.longitude, heading |-> c.heading,
     speed |-> c.speed, timestamp |-> t]

\* null, where a position is expected
NoSample == [latitude |-> 0, longitude |-> 0, heading |-> 0, speed |-> 0, timestamp |-> -1]

\* the location object handed to updateDeviceLocation
Location(lat, lng, heading, speed, t, type) ==
    [latitude |-> lat, longitude |-> lng, heading |-> heading, speed |-> speed,
     timestamp |-> t, is_mobile |-> TRUE, location_type |-> type]

\* null, where a location is expected
NoLive == Location(0, 0, 0, 0, -1, "none")

\* the lastPosition the watch callback reads: that of the render whose [user] effect
\* registered the callback, which is the initial state
capLastPosition == NoSample

\* calculateMovement, for two positions on one meridian: the haversine distance is
\* 0.125 m a unit of latitude, the bearing is north or south
calculateMovement(currentPosition, last) ==
    IF last = NoSample THEN [speed |-> 0, heading |-> 0]
    ELSE LET timeDiff == currentPosition.timestamp - last.timestamp
             dLat == currentPosition.latitude - last.latitude
             distance == ((IF dLat < 0 THEN -dLat ELSE dLat) * 5) \div 4
         IN IF timeDiff = 0 THEN [speed |-> 0, heading |-> 0]
            ELSE [speed |-> distance \div timeDiff,
                  heading |-> IF dLat < 0 THEN 180 ELSE 0]

\* a || b on numbers
OrElse(a, b) == IF a # 0 /\ ~isNaN(a) THEN a ELSE b

GpsUpload(deviceId, location) == [dev |-> deviceId, loc |-> location]

\* processGPSLocation: the location is built from the position and handed to
\* updateDeviceLocation, which posts it
processGPSLocation(c) ==
    LET location == Location(c.latitude, c.longitude, c.heading, c.speed, gpsNow,
                             "gps_live_mobile")
    IN /\ gpsNow < MaxSamples
       /\ Cardinality(gpsUploads) < MaxInflight
       /\ gpsCandidate' = Position(c, gpsNow)
       /\ gpsAccepted' = location
       /\ gpsUploads' = gpsUploads \cup {GpsUpload(Own, location)}
       /\ gpsNow' = gpsNow + 1
       /\ UNCHANGED <<lastPosition, gpsDevices, gpsServer>>

\* processRealTimeLocation: as above, with heading and speed completed from the
\* movement since lastPosition, and the position kept as lastPosition
processRealTimeLocation(c) ==
    LET position == Position(c, gpsNow)
        movement == IF capLastPosition # NoSample
                    THEN calculateMovement(position, capLastPosition)
                    ELSE [speed |-> 0, heading |-> 0]
        location == Location(c.latitude, c.longitude,
                             OrElse(c.heading, movement.heading),
                             OrElse(c.speed, movement.speed), gpsNow,
                             "gps_realtime_continuous")
    IN /\ gpsNow < MaxSamples
       /\ Cardinality(gpsUploads) < MaxInflight
       /\ gpsCandidate' = position
       /\ gpsAccepted' = location
       /\ lastPosition' = position
       /\ gpsUploads' = gpsUploads \cup {GpsUpload(Own, location)}
       /\ gpsNow' = gpsNow + 1
       /\ UNCHANGED <<gpsDevices, gpsServer>>

\* the record the server keeps of a location it accepted
ServerRecord(deviceId, location, t) ==
    [device_id |-> deviceId, last_updated |-> t, is_mobile |-> location.is_mobile,
     last_location |-> location]

\* updateDeviceLocation after its await, the response being ok
GpsUploadAccepted(u) ==
    /\ u \in gpsUploads
    /\ gpsUploads' = gpsUploads \ {u}
    /\ gpsDevices' = ApplyLive(gpsDevices, u.dev, u.loc, gpsNow)
    /\ gpsServer' = <<ServerRecord(u.dev, u.loc, gpsNow)>>
    /\ UNCHANGED <<gpsNow, gpsCandidate, gpsAccepted, lastPosition>>

\* updateDeviceLocation after its await: apiRequest threw, the catch logs
GpsUploadRefused(u) ==
    /\ u \in gpsUploads
    /\ gpsUploads' = gpsUploads \ {u}
    /\ UNCHANGED <<gpsNow, gpsCandidate, gpsAccepted, lastPosition, gpsDevices, gpsServer>>

\* another session of the device reports a location to the server
OtherSessionReport(c) ==
    /\ gpsNow < MaxSamples
    /\ gpsServer' = <<ServerRecord(Own, Location(c.latitude, c.longitude, c.heading,
                                                  c.speed, gpsNow, "other_session"),
                                   gpsNow)>>
    /\ gpsNow' = gpsNow + 1
    /\ UNCHANGED <<gpsCandidate, gpsAccepted, lastPosition, gpsUploads, gpsDevices>>

\* fetchDevices of the continuous tracker, data.filter(...)
validDevices(data) ==
    SelectSeq(data, LAMBDA device :
        /\ device.last_location # NoLive
        /\ ~isNaN(device.last_location.latitude)
        /\ ~isNaN(device.last_location.longitude)
        /\ device.last_location.latitude # 0
        /\ device.last_location.longitude # 0)

\* fetchDevices of the continuous tracker: the valid devices of the snapshot
\* replace the list
GpsFetchDevices ==
    /\ gpsDevices' = validDevices(gpsServer)
    /\ gpsDevices' # gpsDevices
    /\ UNCHANGED <<gpsNow, gpsCandidate, gpsAccepted, lastPosition, gpsUploads, gpsServer>>

GpsIdle ==
    /\ gpsNow = 0 /\ gpsCandidate = NoSample /\ gpsAccepted = NoLive
    /\ lastPosition = NoSample /\ gpsUploads = {} /\ gpsDevices = <<>> /\ gpsServer = <<>>

-----------------------------------------------------------------------------
(* CampusManager: the overlap check of the sections *)

\* the bounding box of a polygon; -90, 90, -180 and 180 degrees are the initial
\* north, south, east and west
getPolygonBounds(polygon) ==
    LET lats == {polygon[i][1] : i \in 1..Len(polygon)}
        lngs == {polygon[i][2] : i \in 1..Len(polygon)}
        Max(S) == CHOOSE x \in S : \A y \in S : y <= x
        Min(S) == CHOOSE x \in S : \A y \in S : x <= y
    IN [north |-> Max(lats \cup {-80000000}), south |-> Min(lats \cup {80000000}),
        east |-> Max(lngs \cup {-160000000}), west |-> Min(lngs \cup {160000000})]

doPolygonsOverlap(a, b) ==
    LET boundsA == getPolygonBounds(a)
        boundsB == getPolygonBounds(b)
    IN IF \/ boundsA.north < boundsB.south \/ boundsA.south > boundsB.north
          \/ boundsA.east < boundsB.west \/ boundsA.west > boundsB.east
       THEN FALSE
       ELSE \/ \E i \in 1..Len(a) : isPointInPolygon(a[i][1], a[i][2], b)
            \/ \E i \in 1..Len(b) : isPointInPolygon(b[i][1], b[i][2], a)

\* verifyNoOverlaps with the negation of its result dropped
verifyNoOverlapsUnnegated(sections) ==
    \E i, j \in 1..Len(sections) :
        i < j /\ doPolygonsOverlap(sections[i].coordinates, sections[j].coordinates)

verifyNoOverlaps(sections) ==
    LET hasOverlaps ==
            \E i, j \in 1..Len(sections) :
                i < j /\ doPolygonsOverlap(sections[i].coordinates, sections[j].coordinates)
    IN ~hasOverlaps

\* the polygons compared at an origin: the four sections, a rectangle over the
\* centre that covers a corner of each section, one within the library, the campus
\* rectangle, and one away from the campus
Polygons(o) ==
    {CampusManager(o).sections[i].coordinates : i \in 1..4}
      \cup {generateRectangle(o.latitude, o.longitude, 0, 0, 40, 40),
            generateRectangle(o.latitude, o.longitude, 24, -24, 10, 10),
            generateRectangle(o.latitude, o.longitude, 0, 0, CampusWidth, CampusHeight),
            generateRectangle(o.latitude, o.longitude, 500, 500, 40, 40)}

\* new CampusManager(o): generateCampusSections runs verifyNoOverlaps on the sections
BuildZones(o) ==
    /\ o # zoneOrigin
    /\ zoneOrigin' = o
    /\ noOverlaps' = verifyNoOverlaps(CampusManager(o).sections)
    /\ UNCHANGED <<polyA, polyB, overlaps>>

\* doPolygonsOverlap(a, b)
ComparePolygons(a, b) ==
    /\ polyA' = a
    /\ polyB' = b
    /\ overlaps' = doPolygonsOverlap(a, b)
    /\ UNCHANGED <<zoneOrigin, noOverlaps>>

ZoneIdle ==
    /\ zoneOrigin = DefaultOrigin
    /\ polyA = <<>> /\ polyB = <<>> /\ overlaps = FALSE
    /\ noOverlaps = verifyNoOverlaps(CampusManager(DefaultOrigin).sections)

-----------------------------------------------------------------------------
(* StableMapUpdater: recentring the map on the devices.  Time is in half seconds. *)

\* the clock stops at MaxViewClock
MaxViewClock == 5
\* flyTo(.., {duration: 1.5})
FlyDuration == 3
\* setTimeout(.., 1000)
ReleaseDelay == 2
\* significantMoveThreshold, 0.0001 degrees: a difference of more than 88 units
SignificantMove == 88
\* 50 m of distanceTo, in units
CenterMove == 400

\* a device of the devices prop at an offset from the default origin
ViewDevice(a, b) ==
    [device_id |-> Own,
     last_location |-> [latitude |-> DefaultOrigin.latitude + a,
                        longitude |-> DefaultOrigin.longitude + b]]

\* another device of the account
OtherDevice(id, a, b) == [ViewDevice(a, b) EXCEPT !.device_id = id]

\* the lists the devices prop takes.  One device: at the origin, 6 m, 12 m and 125 m
\* north of it, 125 m east of it; on the equator, at zero-zero, at 91 degrees of
\* latitude; the other device in its place.  Two, three and six devices, 25 m to 50 m
\* apart.  Minima and maxima have even sums, so that the midpoints are whole units.
DeviceLists ==
    {<<>>,
     <<ViewDevice(0, 0)>>, <<ViewDevice(50, 0)>>, <<ViewDevice(100, 0)>>,
     <<ViewDevice(1000, 0)>>, <<ViewDevice(0, 1000)>>,
     <<ViewDevice(-DefaultOrigin.latitude, 0)>>,
     <<ViewDevice(-DefaultOrigin.latitude, -DefaultOrigin.longitude)>>,
     <<ViewDevice(80888890 - DefaultOrigin.latitude, 0)>>,
     <<OtherDevice("d2", 0, 0)>>,
     <<ViewDevice(0, 0), OtherDevice("d2", 400, 200)>>,
     <<ViewDevice(0, 0), OtherDevice("d2", 400, 200), OtherDevice("d3", -200, 600)>>,
     <<ViewDevice(0, 0), OtherDevice("d2", 400, 200), OtherDevice("d3", -200, 600),
       OtherDevice("d4", 200, 200), OtherDevice("d5", 200, 400),
       OtherDevice("d6", 0, 400)>>}

\* a value that is truthy as a number
Truthy(x) == x # 0 /\ ~isNaN(x)

\* devices.filter(device => device.last_location && .latitude && .longitude)
ValidList(devs) ==
    SelectSeq(devs, LAMBDA device :
        Truthy(device.last_location.latitude) /\ Truthy(device.last_location.longitude))

\* shouldUpdateMap with the test of an empty snapshot left out
shouldUpdateMapNoEmpty(currentDevices, lastPositions, lastCount) ==
    \/ Abs(Len(currentDevices) - lastCount) > 0
    \/ \E i \in 1..Len(currentDevices) :
          LET k == FindIdx(lastPositions, currentDevices[i].device_id)
          IN \/ k = 0
             \/ Abs(currentDevices[i].last_location.latitude - lastPositions[k].lat)
                   > SignificantMove
             \/ Abs(currentDevices[i].last_location.longitude - lastPositions[k].lng)
                   > SignificantMove

shouldUpdateMap(currentDevices, lastPositions, lastCount) ==
    \/ Abs(Len(currentDevices) - lastCount) > 0
    \/ Len(lastPositions) = 0
    \/ \E i \in 1..Len(currentDevices) :
          LET k == FindIdx(lastPositions, currentDevices[i].device_id)
          IN \/ k = 0
             \/ Abs(currentDevices[i].last_location.latitude - lastPositions[k].lat)
                   > SignificantMove
             \/ Abs(currentDevices[i].last_location.longitude - lastPositions[k].lng)
                   > SignificantMove

\* Math.min(...xs), Math.max(...xs)
MinOf(S) == CHOOSE x \in S : \A y \in S : x <= y
MaxOf(S) == CHOOSE x \in S : \A y \in S : y <= x

\* calculateMapCenter returning the first device's position for every list
calculateMapCenterFirst(valid) ==
    IF Len(valid) = 0
    THEN [lat |-> DefaultOrigin.latitude, lng |-> DefaultOrigin.longitude]
    ELSE [lat |-> valid[1].last_location.latitude,
          lng |-> valid[1].last_location.longitude]

calculateMapCenter(valid) ==
    IF Len(valid) = 0
    THEN [lat |-> DefaultOrigin.latitude, lng |-> DefaultOrigin.longitude]
    ELSE IF Len(valid) = 1
    THEN [lat |-> valid[1].last_location.latitude,
          lng |-> valid[1].last_location.longitude]
    ELSE LET lats == {valid[i].last_location.latitude : i \in 1..Len(valid)}
             lons == {valid[i].last_location.longitude : i \in 1..Len(valid)}
         IN [lat |-> (MinOf(lats) + MaxOf(lats)) \div 2,
             lng |-> (MinOf(lons) + MaxOf(lons)) \div 2]

\* calculateZoom with the bracket of two devices left out
calculateZoomNoPair(valid) ==
    IF Len(valid) <= 1 THEN 19
    ELSE IF Len(valid) <= 5 THEN 17 ELSE 16

calculateZoom(valid) ==
    IF Len(valid) <= 1 THEN 19
    ELSE IF Len(valid) = 2 THEN 18
    ELSE IF Len(valid) <= 5 THEN 17 ELSE 16

\* a.distanceTo(b) > 50
FarFrom(a, b) == Abs(a.lat - b.lat) > CenterMove \/ Abs(a.lng - b.lng) > CenterMove

\* currentCenter.distanceTo(center) > 50: during a flight the map is between the
\* centre it left and the target, and is taken to be far from a centre that is far
\* from both; afterwards it is at the target
centerChanged(center) ==
    IF viewNow < flight.until
    THEN FarFrom(flight.from, center) /\ FarFrom(flight.to, center)
    ELSE FarFrom(flight.to, center)

\* lastDevicePositions.current of the valid devices
PositionsOf(valid) ==
    [i \in 1..Len(valid) |->
        [lat |-> valid[i].last_location.latitude,
         lng |-> valid[i].last_location.longitude,
         device_id |-> valid[i].device_id]]

NoCenter == [lat |-> 0, lng |-> 0]
NoDecision ==
    [devices |-> <<>>, lastPositions |-> <<>>, lastCount |-> -1, result |-> FALSE,
     updated |-> FALSE, center |-> NoCenter, zoom |-> 0]

\* the effect of StableMapUpdater, run by a render with these props
ViewEffect(devs, interacting) ==
    LET valid == ValidList(devs)
        shouldUpdate == shouldUpdateMap(valid, lastDevicePositions, lastDeviceCount)
        center == calculateMapCenter(valid)
        zoom == calculateZoom(valid)
        given == [devices |-> valid, lastPositions |-> lastDevicePositions,
                  lastCount |-> lastDeviceCount, result |-> shouldUpdate]
    IN IF interacting \/ updateInProgress
       THEN UNCHANGED <<lastDeviceCount, lastDevicePositions, updateInProgress, viewTimers,
                        mapZoom, flight, decision>>
       ELSE IF ~(shouldUpdate /\ Len(valid) > 0)
       THEN /\ decision' = given @@ [updated |-> FALSE, center |-> NoCenter, zoom |-> 0]
            /\ UNCHANGED <<lastDeviceCount, lastDevicePositions, updateInProgress,
                           viewTimers, mapZoom, flight>>
       ELSE /\ decision' = given @@ [updated |-> TRUE, center |-> center, zoom |-> zoom]
            /\ updateInProgress' = TRUE
            /\ IF Abs(mapZoom - zoom) > 0 \/ centerChanged(center)
               THEN /\ flight' = [from |-> flight.to, to |-> center,
                                  until |-> viewNow + FlyDuration]
                    /\ mapZoom' = zoom
               ELSE UNCHANGED <<flight, mapZoom>>
            /\ lastDeviceCount' = Len(valid)
            /\ lastDevicePositions' = PositionsOf(valid)
            /\ viewTimers' = viewTimers \cup {viewNow + ReleaseDelay}

\* InitialAutoCenter has centred the map and called onMapReady: MapView renders with
\* mapReady set and the device list of that render, StableMapUpdater mounts and its
\* effect runs
ViewMount(devs) ==
    /\ ~viewMounted
    /\ viewMounted' = TRUE
    /\ viewDevices' = devs
    /\ ViewEffect(devs, viewInteracting)
    /\ UNCHANGED <<viewNow, viewInteracting>>

\* MapView renders with a new device list
ViewDevicesChanged(devs) ==
    /\ viewMounted
    /\ devs # viewDevices
    /\ viewDevices' = devs
    /\ ViewEffect(devs, viewInteracting)
    /\ UNCHANGED <<viewNow, viewInteracting, viewMounted>>

\* MapView renders with userInteracting changed
ViewInteractingChanged ==
    /\ viewMounted
    /\ viewInteracting' = ~viewInteracting
    /\ ViewEffect(viewDevices, viewInteracting')
    /\ UNCHANGED <<viewNow, viewDevices, viewMounted>>

\* the callback of setTimeout(.., 1000)
ViewRelease(t) ==
    /\ t \in viewTimers
    /\ t <= viewNow
    /\ viewTimers' = viewTimers \ {t}
    /\ updateInProgress' = FALSE
    /\ UNCHANGED <<viewNow, viewDevices, viewInteracting, lastDeviceCount,
                   lastDevicePositions, mapZoom, flight, viewMounted, decision>>

\* half a second passes; a timeout that is due runs first
ViewTick ==
    /\ viewNow < MaxViewClock
    /\ \A t \in viewTimers : t > viewNow
    /\ viewNow' = viewNow + 1
    /\ UNCHANGED <<viewDevices, viewInteracting, lastDeviceCount, lastDevicePositions,
                   updateInProgress, viewTimers, mapZoom, flight, viewMounted, decision>>

\* InitialAutoCenter has centred the map on the device at the origin; StableMapUpdater
\* is not mounted yet
ViewIdle ==
    /\ viewNow = 0
    /\ viewDevices = <<ViewDevice(0, 0)>>
    /\ viewInteracting = FALSE
    /\ lastDeviceCount = 0
    /\ lastDevicePositions = <<>>
    /\ updateInProgress = FALSE
    /\ viewTimers = {}
    /\ mapZoom = calculateZoom(<<ViewDevice(0, 0)>>)
    /\ flight = [from |-> calculateMapCenter(<<ViewDevice(0, 0)>>),
                 to |-> calculateMapCenter(<<ViewDevice(0, 0)>>),
                 until |-> 0]
    /\ viewMounted = FALSE
    /\ decision = NoDecision

-----------------------------------------------------------------------------
(* MapView: where the campus is built.  part_005 holds two MapView components: the  *)
(* one of line 635 builds the campus at the effective user location, the one of     *)
(* line 1598 at a campus centre it keeps in localStorage.                           *)

\* a device of the devices prop; created_at 0 stands for none, last_location NoOrigin
\* for none
CampDevice(id, created, loc) == [device_id |-> id, created_at |-> created, last_location |-> loc]

\* the western-hemisphere origin (40.7128, -74.0060)
FarOrigin == [latitude |-> 36189156, longitude |-> -65783111]

\* what a location prop or field holds: nothing, the default origin, the far origin
CampLocations == {NoOrigin, DefaultOrigin, FarOrigin}

\* the lists the devices prop takes: none; this client's device alone; this client's
\* device and an older one; two devices without created_at
CampDeviceLists ==
    {<<>>}
      \cup {<<CampDevice(Own, 2, l)>> : l \in CampLocations}
      \cup {<<CampDevice(Own, 2, l), CampDevice("d2", 1, m)>> : l, m \in CampLocations}
      \cup {<<CampDevice(Own, 0, DefaultOrigin), CampDevice("d2", 0, FarOrigin)>>}

\* null, for the firstDevice state
NoFirstDevice == CampDevice("none", 0, NoOrigin)

\* null, for the campusManager state
NoCampus == [campusBounds |-> <<>>, sections |-> <<>>]

\* localStorage.getItem('campus_center') === null
NoSaved == [latitude |-> 0, longitude |-> 0, device_id |-> "none"]

\* the forEach of the [devices] effect: the device with the earliest created_at, the
\* first of them on a tie; the device at index 0 when none has a created_at
firstDeviceCandidate(devs) ==
    LET timed == {i \in 1..Len(devs) : devs[i].created_at # 0}
    IN IF timed = {} THEN devs[1]
       ELSE devs[CHOOSE i \in timed : \A j \in timed :
                    \/ devs[i].created_at < devs[j].created_at
                    \/ devs[i].created_at = devs[j].created_at /\ i <= j]

\* campusCenterData, as JSON.stringify writes it and JSON.parse reads it
campusCenterData(device) ==
    [latitude |-> device.last_location.latitude,
     longitude |-> device.last_location.longitude,
     device_id |-> device.device_id]

\* { latitude: centerData.latitude, longitude: centerData.longitude }
centerOf(centerData) ==
    [latitude |-> centerData.latitude, longitude |-> centerData.longitude]

\* localStorage after the [devices] effect ran with a device list
savedAfter(store, devs) ==
    IF /\ Len(devs) > 0
       /\ store = NoSaved
       /\ firstDeviceCandidate(devs).last_location # NoOrigin
    THEN campusCenterData(firstDeviceCandidate(devs))
    ELSE store

\* campusLocation of the campus effect of line 1676
campusLocation(center, first, user) ==
    IF center # NoOrigin THEN center
    ELSE IF first # NoFirstDevice /\ first.last_location # NoOrigin THEN first.last_location
    ELSE user

\* the campus effect of line 1676: the campus it sets, the one it leaves when
\* campusLocation is null
campusEffect(center, first, user, previous) ==
    IF campusLocation(center, first, user) # NoOrigin
    THEN CampusManagerCenter(campusLocation(center, first, user))
    ELSE previous

\* getFallbackLocation of line 642
getFallbackLocation(devs, current) ==
    LET mine == {i \in 1..Len(devs) : devs[i].device_id = current}
        currentDevice == devs[CHOOSE i \in mine : \A j \in mine : i <= j]
    IN IF mine # {} /\ currentDevice.last_location # NoOrigin
       THEN currentDevice.last_location
       ELSE IF Len(devs) > 0 /\ devs[1].last_location # NoOrigin
       THEN devs[1].last_location
       ELSE DefaultOrigin

\* the campus effect of line 662
userCampusEffect(user, devs) ==
    CampusManager(IF user # NoOrigin THEN user ELSE getFallbackLocation(devs, Own))

\* both MapViews mount with a device list and a user location: the effects of the
\* first render, in order, and those of the render their state changes cause
CampMount(devs, user) ==
    /\ ~campMounted
    /\ campMounted' = TRUE
    /\ campDevices' = devs
    /\ campUser' = user
    /\ saved' = savedAfter(saved, devs)
    /\ campusCenterLocation' = IF saved' # NoSaved THEN centerOf(saved') ELSE NoOrigin
    /\ firstDevice' = IF Len(devs) > 0 THEN firstDeviceCandidate(devs) ELSE NoFirstDevice
    /\ campusManager' = campusEffect(campusCenterLocation', firstDevice', user, NoCampus)
    /\ userCampus' = userCampusEffect(user, devs)
    /\ UNCHANGED built

\* both MapViews unmount: their state is gone, localStorage stays
CampUnmount ==
    /\ campMounted
    /\ campMounted' = FALSE
    /\ campDevices' = <<>>
    /\ campUser' = NoOrigin
    /\ campusCenterLocation' = NoOrigin
    /\ firstDevice' = NoFirstDevice
    /\ campusManager' = NoCampus
    /\ userCampus' = NoCampus
    /\ UNCHANGED <<saved, built>>

\* a snapshot or a live update gives the devices prop a new list: the [devices] effect,
\* then the campus effects
CampDevicesChanged(devs) ==
    /\ campMounted
    /\ devs # campDevices
    /\ campDevices' = devs
    /\ saved' = savedAfter(saved, devs)
    /\ campusCenterLocation' =
          IF saved' # saved THEN centerOf(saved') ELSE campusCenterLocation
    /\ firstDevice' = IF Len(devs) > 0 THEN firstDeviceCandidate(devs) ELSE firstDevice
    /\ campusManager' = campusEffect(campusCenterLocation', firstDevice', campUser, campusManager)
    /\ userCampus' = userCampusEffect(campUser, devs)
    /\ UNCHANGED <<campMounted, campUser, built>>

\* the Dashboard sets userLocation: the campus effects
CampUserChanged(user) ==
    /\ campMounted
    /\ user # campUser
    /\ campUser' = user
    /\ campusManager' = campusEffect(campusCenterLocation, firstDevice, user, campusManager)
    /\ userCampus' = userCampusEffect(user, campDevices)
    /\ UNCHANGED <<campMounted, campDevices, saved, campusCenterLocation, firstDevice, built>>

\* the origins a CampusManager is constructed with: none, valid ones, zero-zero, and
\* one at 91 degrees of latitude
ConstructorOrigins ==
    Origins \cup {NoOrigin,
                  [latitude |-> 0, longitude |-> 0],
                  [latitude |-> 80888890, longitude |-> DefaultOrigin.longitude]}

\* null, for the campuses constructed last
NoBuilt == [given |-> NoOrigin, user |-> NoCampus, center |-> NoCampus]

\* new CampusManager(o), by either class
ConstructCampus(o) ==
    /\ built' = [given |-> o, user |-> CampusManager(o), center |-> CampusManagerCenter(o)]
    /\ UNCHANGED <<campMounted, campDevices, campUser, saved, campusCenterLocation,
                   firstDevice, campusManager, userCampus>>

\* no MapView mounted, nothing saved, no campus constructed
CampIdle ==
    /\ campMounted = FALSE
    /\ campDevices = <<>>
    /\ campUser = NoOrigin
    /\ saved = NoSaved
    /\ campusCenterLocation = NoOrigin
    /\ firstDevice = NoFirstDevice
    /\ campusManager = NoCampus
    /\ userCampus = NoCampus
    /\ built = NoBuilt

-----------------------------------------------------------------------------
(* Dashboard: the devicesInterval and the outcome of its fetches *)

\* the 2 s devicesInterval fires
PollIssued ==
    /\ PollTick
    /\ polledAfterFailure' = (failures > 0)
    /\ UNCHANGED failures

\* fetchDevices, the request failed: the catch block
PollFailed(f) ==
    /\ failures < MaxFailures
    /\ fetchDevicesFailed(f)
    /\ failures' = failures + 1
    /\ polledAfterFailure' = FALSE

\* no fetch has failed
PollIdle == failures = 0 /\ polledAfterFailure = FALSE

-----------------------------------------------------------------------------
(* CampusManager.calculateDistance.  Angles are whole degrees, multiples of 15; sines, *)
(* cosines and square roots are in thousandths, rounded down as a product of two of    *)
(* them is; the distance is in kilometres.                                             *)

\* R = 6371000 m
EarthRadius == 6371

\* 1000 sin(15 k degrees), k = 0..6
SinTable == <<0, 259, 500, 707, 866, 966, 1000>>

\* Math.sin of d degrees, -180 <= d <= 180: odd, and symmetric about 90 degrees
Sin(d) ==
    LET m == Abs(d)
        r == IF m > 90 THEN 180 - m ELSE m
        v == SinTable[(r \div 15) + 1]
    IN IF d < 0 THEN -v ELSE v

\* Math.cos of d degrees, -90 <= d <= 90
Cos(d) == Sin(90 - Abs(d))

\* the largest r in lo..hi with r * r <= n, by bisection
RECURSIVE SqrtIn(_, _, _)
SqrtIn(n, lo, hi) ==
    IF lo = hi THEN lo
    ELSE LET mid == (lo + hi + 1) \div 2
         IN IF mid * mid <= n THEN SqrtIn(n, mid, hi) ELSE SqrtIn(n, lo, mid - 1)

\* Math.sqrt of n millionths, in thousandths, rounded down; NaN for a negative n
Sqrt(n) == IF n < 0 THEN NaN ELSE SqrtIn(n, 0, 1415)

\* Math.atan2(y, x) for y, x >= 0 not both 0, in degrees: the multiple of 15 whose
\* direction is nearest to (x, y); 0 for atan2(0, 0); NaN for a NaN argument
Atan2(y, x) ==
    IF isNaN(y) \/ isNaN(x) THEN NaN
    ELSE LET angles == {15 * k : k \in 0..6}
             off(t) == Abs(y * Cos(t) - x * Sin(t))
         IN CHOOSE t \in angles : \A u \in angles : off(t) < off(u) \/ (off(t) = off(u) /\ t <= u)

\* the haversine term a, in millionths
HaversineA(lat1, lng1, lat2, lng2) ==
    LET dLat == lat2 - lat1
        dLng == lng2 - lng1
    IN Sin(dLat \div 2) * Sin(dLat \div 2)
         + (((Cos(lat1) * Cos(lat2)) \div 1000) * Sin(dLng \div 2) * Sin(dLng \div 2)) \div 1000

\* calculateDistance with the cosine of lat1 taken twice
calculateDistanceOneCosine(lat1, lng1, lat2, lng2) ==
    LET dLat == lat2 - lat1
        dLng == lng2 - lng1
        a == Sin(dLat \div 2) * Sin(dLat \div 2)
               + (((Cos(lat1) * Cos(lat1)) \div 1000) * Sin(dLng \div 2) * Sin(dLng \div 2))
                   \div 1000
        c == 2 * Atan2(Sqrt(a), Sqrt(1000000 - a))
    IN IF isNaN(Atan2(Sqrt(a), Sqrt(1000000 - a))) THEN NaN
       ELSE (EarthRadius * ((c * 3142) \div 180)) \div 1000

\* calculateDistance(lat1, lng1, lat2, lng2): R * c, c in radians (pi = 3.142)
calculateDistance(lat1, lng1, lat2, lng2) ==
    LET a == HaversineA(lat1, lng1, lat2, lng2)
        c == 2 * Atan2(Sqrt(a), Sqrt(1000000 - a))
    IN IF isNaN(Atan2(Sqrt(a), Sqrt(1000000 - a))) THEN NaN
       ELSE (EarthRadius * ((c * 3142) \div 180)) \div 1000

\* the points distances are taken between: four latitudes from 60 degrees south to the
\* north pole, three longitudes a quarter turn apart
DistancePoints ==
    {[lat |-> a, lng |-> b] : a \in {-60, 0, 30, 90}, b \in {-90, 0, 90}}

\* calculateDistance is called for two points, and for the same two exchanged
MeasureDistance(a, b) ==
    /\ distFrom' = a
    /\ distTo' = b
    /\ distanceThere' = calculateDistance(a.lat, a.lng, b.lat, b.lng)
    /\ distanceBack' = calculateDistance(b.lat, b.lng, a.lat, a.lng)

\* the distance of the point (0, 0) from itself has been taken
DistIdle ==
    /\ distFrom = [lat |-> 0, lng |-> 0]
    /\ distTo = [lat |-> 0, lng |-> 0]
    /\ distanceThere = calculateDistance(0, 0, 0, 0)
    /\ distanceBack = calculateDistance(0, 0, 0, 0)

-----------------------------------------------------------------------------
(* App: login, logout and the device-setup request *)

\* device-setup requests in flight at once
MaxSetups == 2

\* a user object: the account, and device_info.needs_setup
AppUser(email, needs) == [email |-> email, needs_setup |-> needs]

\* null, for the user state and the localStorage entry
NoUser == AppUser("none", FALSE)

\* what /login and /register answer with
AppUsers == {AppUser(e, n) : e \in {"a@x", "b@x"}, n \in BOOLEAN}

\* updatedUser of handleDeviceSetup: a copy of the user of its render, needs_setup cleared
updatedUser(user) == [user EXCEPT !.needs_setup = FALSE]

\* handleLogin, called by the login form
handleLogin(userData) ==
    /\ appUser = NoUser /\ isLogin
    /\ appUser' = userData
    /\ connectionError' = ""
    /\ storedUser' = userData
    /\ IF userData.needs_setup
       THEN deviceInfo' = userData.email /\ showDeviceModal' = TRUE
       ELSE UNCHANGED <<deviceInfo, showDeviceModal>>
    /\ loggedOut' = FALSE
    /\ UNCHANGED <<setups, isLogin>>

\* handleRegister, called by the registration form: the modal is always shown
handleRegister(userData) ==
    /\ appUser = NoUser /\ ~isLogin
    /\ appUser' = userData
    /\ connectionError' = ""
    /\ storedUser' = userData
    /\ deviceInfo' = userData.email
    /\ showDeviceModal' = TRUE
    /\ loggedOut' = FALSE
    /\ UNCHANGED <<setups, isLogin>>

\* switchToRegister, switchToLogin
SwitchForm ==
    /\ appUser = NoUser
    /\ isLogin' = ~isLogin
    /\ connectionError' = ""
    /\ UNCHANGED <<appUser, storedUser, showDeviceModal, deviceInfo, setups, loggedOut>>

\* handleLogout
handleLogout ==
    /\ appUser # NoUser
    /\ appUser' = NoUser
    /\ connectionError' = ""
    /\ storedUser' = NoUser
    /\ showDeviceModal' = FALSE
    /\ deviceInfo' = "none"
    /\ loggedOut' = TRUE
    /\ UNCHANGED <<setups, isLogin>>

\* the modal confirms: handleDeviceSetup up to its await
DeviceSetupAsked ==
    /\ appUser # NoUser /\ showDeviceModal /\ deviceInfo # "none"
    /\ Cardinality(setups) < MaxSetups
    /\ [user |-> appUser] \notin setups
    /\ setups' = setups \cup {[user |-> appUser]}
    /\ UNCHANGED <<appUser, storedUser, showDeviceModal, deviceInfo, loggedOut, isLogin,
                   connectionError>>

\* handleDeviceSetup after its await: the device was added ("ok"), the server answered
\* that it already exists ("exists"), or the request failed otherwise ("failed")
handleDeviceSetup(s, outcome) ==
    /\ s \in setups
    /\ setups' = setups \ {s}
    /\ IF outcome \in {"ok", "exists"}
       THEN /\ showDeviceModal' = FALSE
            /\ deviceInfo' = "none"
            /\ appUser' = updatedUser(s.user)
            /\ storedUser' = updatedUser(s.user)
            /\ UNCHANGED connectionError
       ELSE /\ connectionError' = "failed"
            /\ UNCHANGED <<appUser, storedUser, showDeviceModal, deviceInfo>>
    /\ UNCHANGED <<loggedOut, isLogin>>

\* handleSkipDeviceSetup
handleSkipDeviceSetup ==
    /\ appUser # NoUser /\ showDeviceModal /\ deviceInfo # "none"
    /\ showDeviceModal' = FALSE
    /\ deviceInfo' = "none"
    /\ UNCHANGED <<appUser, storedUser, setups, loggedOut, isLogin, connectionError>>

\* the page is loaded again: the state starts over, the requests of the old page are
\* gone, and the mount effect reads the user from localStorage
AppReload ==
    /\ appUser' = storedUser
    /\ showDeviceModal' = FALSE
    /\ deviceInfo' = "none"
    /\ setups' = {}
    /\ isLogin' = TRUE
    /\ connectionError' = ""
    /\ UNCHANGED <<storedUser, loggedOut>>

\* nobody has logged in
AppIdle ==
    /\ appUser = NoUser
    /\ storedUser = NoUser
    /\ showDeviceModal = FALSE
    /\ deviceInfo = "none"
    /\ setups = {}
    /\ loggedOut = FALSE
    /\ isLogin = TRUE
    /\ connectionError = ""

-----------------------------------------------------------------------------
(* MapView: how mapReady becomes true and StableMapUpdater comes to run. *)

\* what the last_location of a device of the devices prop holds: nothing, a position
\* whose latitude or whose longitude is 0 (falsy), or a position
Positions == {"none", "zeroLatitude", "zeroLongitude", "valid"}

\* validDevices.length
validDevicesLength(devs) == Cardinality({d \in Devices : devs[d] = "valid"})

\* the parent hands MapView another devices prop
DevicesProp(d, v) ==
    /\ readyDevices[d] # v
    /\ readyDevices' = [readyDevices EXCEPT ![d] = v]
    /\ renderPending' = TRUE
    /\ UNCHANGED <<rendersAutoCenter, hasCentered, mapReady, updaterMounted, effectPending>>

\* MapView renders: {mapReady && <StableMapUpdater/>}, and InitialAutoCenter, where
\* the MapView has one, gets a new onMapReady, so that its effect runs after the render
MapViewRender ==
    /\ renderPending
    /\ renderPending' = FALSE
    /\ updaterMounted' = mapReady
    /\ effectPending' = rendersAutoCenter
    /\ UNCHANGED <<rendersAutoCenter, readyDevices, hasCentered, mapReady>>

\* handleMapReady
handleMapReady ==
    /\ mapReady' = TRUE
    /\ renderPending' = (renderPending \/ ~mapReady)

\* the effect of InitialAutoCenter
InitialAutoCenter ==
    /\ effectPending
    /\ effectPending' = FALSE
    /\ IF ~hasCentered /\ validDevicesLength(readyDevices) > 0
       THEN hasCentered' = TRUE /\ handleMapReady
       ELSE UNCHANGED <<hasCentered, mapReady, renderPending>>
    /\ UNCHANGED <<rendersAutoCenter, readyDevices, updaterMounted>>

\* a MapView with InitialAutoCenter, before its first render, without devices
ReadyIdle ==
    /\ rendersAutoCenter = TRUE
    /\ readyDevices = [d \in Devices |-> "none"]
    /\ hasCentered = FALSE
    /\ mapReady = FALSE
    /\ updaterMounted = FALSE
    /\ renderPending = TRUE
    /\ effectPending = FALSE

-----------------------------------------------------------------------------
GeoIdle ==
    /\ origin = DefaultOrigin
    /\ probe = [lat |-> DefaultOrigin.latitude, lng |-> DefaultOrigin.longitude]
    /\ section = getCurrentSection(CampusManager(origin), probe.lat, probe.lng)
    /\ inCampus = isInCampus(CampusManager(origin), probe.lat, probe.lng)
MapIdle ==
    /\ refInteracting = FALSE /\ userInteracting = FALSE /\ interactionTimer = 0
    /\ mapTimers = {} /\ nextTimer = 1 /\ open = 0 /\ lastEnd = -1 /\ mapNow = 0

\* the Dashboard after its first render and the first run of the [user] effect
DashInit ==
    /\ isMobile \in BOOLEAN
    /\ geolocation \in BOOLEAN
    /\ mounted = TRUE
    /\ epoch = 1
    /\ devices = <<>>
    /\ currentDeviceId = Own
    /\ locationStatus = "initializing"
    /\ capCur = "none"
    /\ capDevs = <<>>
    /\ capStatus = "initializing"
    /\ handles = {}
    /\ trackers = [d \in Devices |-> NoTracker]
    /\ watcherRef = 0
    /\ intervalRef = 0
    /\ nextHandle = 1
    /\ nextSid = 1
    /\ server \in [Devices -> {-1, 0}]
    /\ initPending = {[ep |-> 1, cs |-> "initializing", exists |-> server[Own] >= 0]}
    /\ fetches = {[ep |-> 1, capCur |-> "none", capDevs |-> <<>>, cs |-> "initializing",
                   data |-> ServerList(server)]}
    /\ uploads = {}
    /\ oneshots = {}
    /\ fbPending = {}
    /\ timers = {}
    /\ now = 0

InitTrack == DashInit /\ GeoIdle /\ MapIdle /\ NetIdle /\ GpsIdle /\ ZoneIdle /\ ViewIdle /\ CampIdle /\ PollIdle /\ ReadyIdle /\ AppIdle /\ DistIdle

\* every event of a tracking session, the clock standing still and the server's list
\* changing by the client's own requests only
NextTrack ==
    \/ (PollTick) /\ UNCHANGED otherOfDash
    \/ (\E f \in fetches : fetchDevices(f)) /\ UNCHANGED otherOfDash
    \/ (\E f \in fetches : fetchDevicesFailed(f)) /\ UNCHANGED otherOfDash
    \/ (\E p \in initPending : \E deviceExists \in BOOLEAN : initializeDeviceTracking(p, deviceExists)) /\ UNCHANGED otherOfDash
    \/ (\E h \in handles : WatchPosition(h)) /\ UNCHANGED otherOfDash
    \/ (\E h \in handles : WatchError(h)) /\ UNCHANGED otherOfDash
    \/ (\E t \in timers : DowngradeTimeout(t)) /\ UNCHANGED otherOfDash
    \/ (\E o \in oneshots : OneShotPosition(o)) /\ UNCHANGED otherOfDash
    \/ (\E o \in oneshots : OneShotError(o)) /\ UNCHANGED otherOfDash
    \/ (\E p \in fbPending : \E ts \in 0..MaxClock : \E ok \in BOOLEAN : FallbackStarted(p, ts, ok)) /\ UNCHANGED otherOfDash
    \/ (\E h \in handles : IntervalTick(h)) /\ UNCHANGED otherOfDash
    \/ (\E u \in uploads : updateDeviceLocation(u)) /\ UNCHANGED otherOfDash
    \/ (\E u \in uploads : updateDeviceLocationFailed(u)) /\ UNCHANGED otherOfDash
    \/ (UserChanged) /\ UNCHANGED otherOfDash
    \/ (Unmount) /\ UNCHANGED otherOfDash

SpecTrack == InitTrack /\ [][NextTrack]_vars

\* the same start, on a client whose browser has geolocation
InitMerge == InitTrack /\ geolocation = TRUE

\* snapshots and live updates while every positioning request succeeds, the clock running
NextMerge ==
    \/ (Tick) /\ UNCHANGED otherOfDash
    \/ (\E d \in Devices : \E v \in -1..MaxClock : ServerChange(d, v)) /\ UNCHANGED otherOfDash
    \/ (PollTick) /\ UNCHANGED otherOfDash
    \/ (\E f \in fetches : fetchDevices(f)) /\ UNCHANGED otherOfDash
    \/ (\E f \in fetches : fetchDevicesFailed(f)) /\ UNCHANGED otherOfDash
    \/ (\E p \in initPending : \E deviceExists \in BOOLEAN : initializeDeviceTracking(p, deviceExists)) /\ UNCHANGED otherOfDash
    \/ (\E h \in handles : WatchPosition(h)) /\ UNCHANGED otherOfDash
    \/ (\E o \in oneshots : OneShotPosition(o)) /\ UNCHANGED otherOfDash
    \/ (\E u \in uploads : updateDeviceLocation(u)) /\ UNCHANGED otherOfDash
    \/ (\E u \in uploads : updateDeviceLocationFailed(u)) /\ UNCHANGED otherOfDash

SpecMerge == InitMerge /\ [][NextMerge]_vars

\* a Dashboard that does nothing, under the campus and the map
DashIdle ==
    DashInit /\ isMobile = FALSE /\ geolocation = TRUE /\ server = [d \in Devices |-> 0]

\* a campus built at one of the origins, the device rendered at the origin
InitGeo ==
    /\ DashIdle
    /\ MapIdle
    /\ NetIdle
    /\ GpsIdle
    /\ ZoneIdle
    /\ ViewIdle
    /\ CampIdle
    /\ PollIdle /\ ReadyIdle /\ AppIdle
    /\ DistIdle
    /\ origin \in Origins
    /\ probe = [lat |-> origin.latitude, lng |-> origin.longitude]
    /\ section = getCurrentSection(CampusManager(origin), probe.lat, probe.lng)
    /\ inCampus = isInCampus(CampusManager(origin), probe.lat, probe.lng)

NextGeo ==
    \/ (\E pt \in Probes(origin) : Classify(pt)) /\ UNCHANGED otherOfGeo
    \/ (\E o \in Origins : RebuildCampus(o)) /\ UNCHANGED otherOfGeo

SpecGeo == InitGeo /\ [][NextGeo]_vars

InitMap == DashIdle /\ GeoIdle /\ MapIdle /\ NetIdle /\ GpsIdle /\ ZoneIdle /\ ViewIdle /\ CampIdle /\ PollIdle /\ ReadyIdle /\ AppIdle /\ DistIdle

NextMap ==
    \/ (handleInteractionStart) /\ UNCHANGED otherOfMap
    \/ (handleInteractionEnd) /\ UNCHANGED otherOfMap
    \/ (\E t \in mapTimers : InteractionTimeout(t)) /\ UNCHANGED otherOfMap
    \/ (MapControllerCleanup) /\ UNCHANGED otherOfMap
    \/ (MapTick) /\ UNCHANGED otherOfMap

SpecMap == InitMap /\ [][NextMap]_vars

InitNet ==
    /\ DashIdle
    /\ GeoIdle
    /\ MapIdle
    /\ GpsIdle
    /\ ZoneIdle
    /\ ViewIdle
    /\ CampIdle
    /\ PollIdle /\ ReadyIdle /\ AppIdle
    /\ DistIdle
    /\ netIdx = 0 /\ netAsked = <<>> /\ netLog = <<>> /\ netResult = NoResult
    /\ lastKnown \in LastKnowns

NextNet ==
    \/ (NetCall) /\ UNCHANGED otherOfNet
    \/ (\E r \in Answers(netIdx) : \E jLat, jLng \in Jitters : NetAnswer(r, jLat, jLng)) /\ UNCHANGED otherOfNet
    \/ (\E known \in LastKnowns : NetTaken(known)) /\ UNCHANGED otherOfNet

SpecNet == InitNet /\ [][NextNet]_vars

\* the sampling client before its first position, the device not yet on the server
InitGps == DashIdle /\ GeoIdle /\ MapIdle /\ NetIdle /\ GpsIdle /\ ZoneIdle /\ ViewIdle /\ CampIdle /\ PollIdle /\ ReadyIdle /\ AppIdle /\ DistIdle

NextGps ==
    \/ (\E c \in Candidates : processGPSLocation(c)) /\ UNCHANGED otherOfGps
    \/ (\E c \in Candidates : processRealTimeLocation(c)) /\ UNCHANGED otherOfGps
    \/ (\E u \in gpsUploads : GpsUploadAccepted(u)) /\ UNCHANGED otherOfGps
    \/ (\E u \in gpsUploads : GpsUploadRefused(u)) /\ UNCHANGED otherOfGps
    \/ (\E c \in Candidates : OtherSessionReport(c)) /\ UNCHANGED otherOfGps
    \/ (GpsFetchDevices) /\ UNCHANGED otherOfGps

SpecGps == InitGps /\ [][NextGps]_vars

\* a campus built at one of the origins, no polygons compared yet
InitZone ==
    /\ DashIdle /\ GeoIdle /\ MapIdle /\ NetIdle /\ GpsIdle /\ ViewIdle /\ CampIdle /\ PollIdle /\ ReadyIdle /\ AppIdle /\ DistIdle
    /\ zoneOrigin \in Origins
    /\ polyA = <<>> /\ polyB = <<>> /\ overlaps = FALSE
    /\ noOverlaps = verifyNoOverlaps(CampusManager(zoneOrigin).sections)

NextZone ==
    \/ (\E o \in Origins : BuildZones(o)) /\ UNCHANGED otherOfZone
    \/ (\E a, b \in Polygons(zoneOrigin) : ComparePolygons(a, b)) /\ UNCHANGED otherOfZone

SpecZone == InitZone /\ [][NextZone]_vars

InitView == DashIdle /\ GeoIdle /\ MapIdle /\ NetIdle /\ GpsIdle /\ ZoneIdle /\ ViewIdle /\ CampIdle /\ PollIdle /\ ReadyIdle /\ AppIdle /\ DistIdle

NextView ==
    \/ (\E devs \in DeviceLists : ViewMount(devs)) /\ UNCHANGED otherOfView
    \/ (\E devs \in DeviceLists : ViewDevicesChanged(devs)) /\ UNCHANGED otherOfView
    \/ (ViewInteractingChanged) /\ UNCHANGED otherOfView
    \/ (\E t \in viewTimers : ViewRelease(t)) /\ UNCHANGED otherOfView
    \/ (ViewTick) /\ UNCHANGED otherOfView

SpecView == InitView /\ [][NextView]_vars

InitCamp == DashIdle /\ GeoIdle /\ MapIdle /\ NetIdle /\ GpsIdle /\ ZoneIdle /\ ViewIdle /\ CampIdle /\ PollIdle /\ ReadyIdle /\ AppIdle /\ DistIdle

NextCamp ==
    \/ (\E devs \in CampDeviceLists, user \in CampLocations : CampMount(devs, user))
          /\ UNCHANGED otherOfCamp
    \/ (CampUnmount) /\ UNCHANGED otherOfCamp
    \/ (\E devs \in CampDeviceLists : CampDevicesChanged(devs)) /\ UNCHANGED otherOfCamp
    \/ (\E user \in CampLocations : CampUserChanged(user)) /\ UNCHANGED otherOfCamp
    \/ (\E o \in ConstructorOrigins : ConstructCampus(o)) /\ UNCHANGED otherOfCamp

SpecCamp == InitCamp /\ [][NextCamp]_vars

\* the Dashboard of InitMerge
InitPoll == InitMerge

\* the polls of a Dashboard, their answers and failures, the server's list changing
NextPoll ==
    \/ (Tick) /\ UNCHANGED pollVars /\ UNCHANGED otherOfPoll
    \/ (\E d \in Devices : \E v \in -1..MaxClock : ServerChange(d, v))
          /\ UNCHANGED pollVars /\ UNCHANGED otherOfPoll
    \/ (PollIssued) /\ UNCHANGED otherOfPoll
    \/ (\E f \in fetches : fetchDevices(f)) /\ UNCHANGED pollVars /\ UNCHANGED otherOfPoll
    \/ (\E f \in fetches : PollFailed(f)) /\ UNCHANGED otherOfPoll
    \/ (Unmount) /\ UNCHANGED pollVars /\ UNCHANGED otherOfPoll

SpecPoll == InitPoll /\ [][NextPoll]_vars

\* the distance of one of the points from itself has been taken
InitDist ==
    /\ DashIdle /\ GeoIdle /\ MapIdle /\ NetIdle /\ GpsIdle /\ ZoneIdle /\ ViewIdle /\ CampIdle
    /\ PollIdle /\ ReadyIdle /\ AppIdle
    /\ distFrom \in DistancePoints
    /\ distTo = distFrom
    /\ distanceThere = calculateDistance(distFrom.lat, distFrom.lng, distTo.lat, distTo.lng)
    /\ distanceBack = distanceThere

NextDist ==
    \/ (\E a, b \in DistancePoints : MeasureDistance(a, b)) /\ UNCHANGED otherOfDist

SpecDist == InitDist /\ [][NextDist]_vars

InitApp ==
    /\ DashIdle /\ GeoIdle /\ MapIdle /\ NetIdle /\ GpsIdle /\ ZoneIdle /\ ViewIdle /\ CampIdle
    /\ PollIdle /\ ReadyIdle /\ DistIdle /\ AppIdle

NextApp ==
    \/ (\E userData \in AppUsers : handleLogin(userData)) /\ UNCHANGED otherOfApp
    \/ (\E userData \in AppUsers : handleRegister(userData)) /\ UNCHANGED otherOfApp
    \/ (SwitchForm) /\ UNCHANGED otherOfApp
    \/ (handleLogout) /\ UNCHANGED otherOfApp
    \/ (DeviceSetupAsked) /\ UNCHANGED otherOfApp
    \/ (\E s \in setups : \E outcome \in {"ok", "exists", "failed"} : handleDeviceSetup(s, outcome))
          /\ UNCHANGED otherOfApp
    \/ (handleSkipDeviceSetup) /\ UNCHANGED otherOfApp
    \/ (AppReload) /\ UNCHANGED otherOfApp

SpecApp == InitApp /\ [][NextApp]_vars

\* the map under the browser's scheduling: a second that can pass does pass, and a
\* timeout that is due has its callback run
MapTimePasses == (MapTick) /\ UNCHANGED otherOfMap
MapTimeoutFires == (\E t \in mapTimers : InteractionTimeout(t)) /\ UNCHANGED otherOfMap

SpecMapLive == InitMap /\ [][NextMap]_vars /\ WF_vars(MapTimePasses) /\ WF_vars(MapTimeoutFires)

\* the device list on its own: snapshots and live samples of both devices, several
\* samples under way at once, the clock standing still
NextList ==
    \/ (\E d \in Devices : \E v \in -1..MaxClock : ServerChange(d, v)) /\ UNCHANGED otherOfDash
    \/ (PollTick) /\ UNCHANGED otherOfDash
    \/ (\E f \in fetches : fetchDevices(f)) /\ UNCHANGED otherOfDash
    \/ (\E f \in fetches : fetchDevicesFailed(f)) /\ UNCHANGED otherOfDash
    \/ (\E d \in Devices : \E role \in {"laptop", "mobile"} : SampleArrived(d, role)) /\ UNCHANGED otherOfDash
    \/ (\E u \in uploads : updateDeviceLocation(u)) /\ UNCHANGED otherOfDash
    \/ (\E u \in uploads : updateDeviceLocationFailed(u)) /\ UNCHANGED otherOfDash

SpecList == InitMerge /\ [][NextList]_vars

\* either MapView, mounted with any devices prop, before its first render
InitReady ==
    /\ DashIdle /\ GeoIdle /\ MapIdle /\ NetIdle /\ GpsIdle /\ ZoneIdle /\ ViewIdle /\ CampIdle
    /\ PollIdle /\ DistIdle /\ AppIdle
    /\ rendersAutoCenter \in BOOLEAN
    /\ readyDevices \in [Devices -> Positions]
    /\ hasCentered = FALSE
    /\ mapReady = FALSE
    /\ updaterMounted = FALSE
    /\ renderPending = TRUE
    /\ effectPending = FALSE

NextReady ==
    \/ (\E d \in Devices : \E v \in Positions : DevicesProp(d, v)) /\ UNCHANGED otherOfReady
    \/ (MapViewRender) /\ UNCHANGED otherOfReady
    \/ (InitialAutoCenter) /\ UNCHANGED otherOfReady

\* React runs a render that is due and, after it, the effects of that render
ReadyRenders == (MapViewRender) /\ UNCHANGED otherOfReady
ReadyEffects == (InitialAutoCenter) /\ UNCHANGED otherOfReady

SpecReady == InitReady /\ [][NextReady]_vars /\ WF_vars(ReadyRenders) /\ WF_vars(ReadyEffects)

-----------------------------------------------------------------------------
(* Properties *)

\* the device list as a map: the set of its records
AsMap(devs) == {devs[i] : i \in 1..Len(devs)}

\* C1: the record held for a device is the newest received for it: no step replaces
\* the held record by one with an older last_updated, and a live record gives way to
\* a snapshot record only if the snapshot's last_updated is strictly newer (on a tie
\* the live record stays).
C1_NewestRecordHeld ==
    [][\A d \in Devices :
          (d \in Ids(devices) /\ d \in Ids(devices')) =>
              LET old == Rec(devices, d)
                  new == Rec(devices', d)
              IN /\ new.last_updated >= old.last_updated
                 /\ (old.last_location.origin = "local" /\ new.last_location.origin = "server")
                        => new.last_updated > old.last_updated]_vars

\* C2: a device has at most one active session: all the watches and intervals that
\* are live for one device_id belong to the same session, also when
\* initializeDeviceTracking and fetchDevices race.
C2_OneSessionPerDevice ==
    \A h1, h2 \in handles : h1.dev = h2.dev => h1.sid = h2.sid

\* C3: a step that runs stopAllLocationTracking (the effect's cleanup: the component
\* unmounts, or the effect runs again) leaves no watch and no interval active.
C3_StopLeavesNothingActive ==
    [][(mounted /\ (~mounted' \/ epoch' # epoch)) => handles' = {}]_vars

\* C4: after teardown by unmount, no late response changes the device map, and none
\* creates a watch, an interval or a timeout.
C4_LateResponsesDropped ==
    [][~mounted => /\ devices' = devices
                   /\ handles' \subseteq handles
                   /\ timers' \subseteq timers]_vars

\* C5: the userInteracting flag is true while an interaction-start event is not yet
\* matched by its end event, and for the 2 s after the last interaction-end event.
C5_FlagHeldThroughInteraction ==
    (open > 0 \/ (lastEnd >= 0 /\ mapNow < lastEnd + Debounce)) => userInteracting

\* C6: for every campus origin, the centroid of each zone is classified by
\* getCurrentSection into that zone.
C6_CentroidInOwnZone ==
    \A i \in 1..Len(CampusManager(origin).sections) :
        LET sec == CampusManager(origin).sections[i]
        IN probe = Centroid(sec) => section = sec.id

\* C7: a point for which isInCampus is false is in no zone: getCurrentSection
\* returns null for it.
C7_OutsideCampusNoZone ==
    ~inCampus => section = "none"

\* C8: for every snapshot and every live update in flight, applying both to the
\* device map in either order gives the same map, and applying either twice gives
\* the same map as applying it once.
C8_MergeOrderIndependent ==
    \A f \in fetches : \A u \in uploads :
        LET snap == MergeSnapshot(f.data, f.capDevs)
            live == ApplyLive(devices, u.dev, u.loc, now)
            snapThenLive == ApplyLive(snap, u.dev, u.loc, now)
            liveThenSnap == snap
        IN /\ AsMap(snapThenLive) = AsMap(liveThenSnap)
           /\ AsMap(ApplyLive(live, u.dev, u.loc, now)) = AsMap(live)

\* C9: no step removes a device record from the device map (there is no teardown in
\* the behaviours checked; a snapshot that lacks the device does not remove it).
C9_RecordStays ==
    [][\A d \in Ids(devices) : d \in Ids(devices')]_vars

\* C10: the record of a device other than the client's own is held exactly as a
\* snapshot delivered it: its last_location and last_updated are never locally
\* generated data.
C10_SnapshotOnlyVerbatim ==
    \A i \in 1..Len(devices) :
        devices[i].device_id # Own
            => devices[i] = SnapshotRecord(devices[i].device_id, devices[i].last_updated)

\* C11: a session that has left Tier 1 (the continuous high-accuracy watch) for a
\* lower tier has no Tier 1 source left delivering samples: a session with a live
\* mobile watch has no live laptop watch and no live fallback interval.
C11_NoHigherTierLeft ==
    \A h1, h2 \in handles :
        (h1.sid = h2.sid /\ h1.role = "mobile") => h2.role = "mobile"

\* C12: a failure of the Tier 1 watch leads to a downgrade: when the deferred
\* downgrade (the 30 s timeout set by the watch's error callback) fires for a session
\* that is not stopped, Tier 2 tracking (or, below it, Tier 3) is started for the
\* session.
C12_DowngradeStartsTier2 ==
    [][\A t \in timers :
          (t \notin timers' /\ mounted' /\ t.ep = epoch') =>
              \/ \E h \in handles' : h.sid = t.sid /\ h.role \in {"laptop", "fallback"}
              \/ \E p \in fbPending' : p.sid = t.sid]_vars

\* every service fetched by the call has answered, and none of the answers succeeded
Exhausted ==
    /\ Len(netLog) = Len(Services)
    /\ \A i \in 1..Len(netLog) : ~Succeeds(netLog[i])

Within(a, b, d) == a - b <= d /\ b - a <= d

\* C13: getNetworkBasedLocation fetches the services in list order: service k is
\* fetched only after services 1..k-1 have each answered without success, a returned
\* network_ip location has the coordinates of the first service that succeeded, and
\* no service is fetched after that one.
C13_ProvidersInOrder ==
    /\ \A i \in 1..Len(netAsked) : netAsked[i] = i
    /\ Len(netLog) <= Len(netAsked)
    /\ Len(netAsked) <= Len(netLog) + 1
    /\ \A i \in 1..Len(netLog) : i < Len(netAsked) => ~Succeeds(netLog[i])
    /\ netResult.location_type = "network_ip" =>
          LET k == Len(netLog)
          IN /\ Len(netAsked) = k
             /\ Succeeds(netLog[k])
             /\ netResult.latitude = ServicePosition(k).latitude
             /\ netResult.longitude = ServicePosition(k).longitude

\* the second service succeeded after the first had failed, and the call returned
C13_Witness ==
    /\ netResult.location_type = "network_ip"
    /\ Len(netLog) = 2
    /\ ~Succeeds(netLog[1])

\* C14 (as the code has it): when every service fails, getNetworkBasedLocation still
\* returns a location: the hardcoded default coordinates plus a jitter of at most
\* 0.0005 degrees per axis, whatever the device's last-known position.
C14_FallbackIsDefaultWithJitter ==
    Exhausted =>
        /\ netResult.location_type = "network_fallback"
        /\ Within(netResult.latitude, DefaultOrigin.latitude, JitterHalf)
        /\ Within(netResult.longitude, DefaultOrigin.longitude, JitterHalf)

\* every service failed for a device last seen far from the default coordinates
C14_Witness ==
    /\ Exhausted
    /\ lastKnown.known
    /\ ~Within(lastKnown.latitude, DefaultOrigin.latitude, JitterHalf)
    /\ netResult.location_type = "network_fallback"

\* C14 (as stated): when every service fails, the location returned is the device's
\* last-known position plus a small jitter if there is one, otherwise the hardcoded
\* default coordinates (taken here with the same jitter).
C14_LastKnownPlusJitter ==
    Exhausted =>
        /\ netResult # NoResult
        /\ IF lastKnown.known
           THEN /\ Within(netResult.latitude, lastKnown.latitude, JitterHalf)
                /\ Within(netResult.longitude, lastKnown.longitude, JitterHalf)
           ELSE /\ Within(netResult.latitude, DefaultOrigin.latitude, JitterHalf)
                /\ Within(netResult.longitude, DefaultOrigin.longitude, JitterHalf)

\* a sample's coordinates are numbers, not both zero, the latitude within 90 degrees
\* and the longitude within 180 degrees (80000000 and 160000000 units)
ValidSample(l) ==
    /\ ~isNaN(l.latitude) /\ ~isNaN(l.longitude)
    /\ ~(l.latitude = 0 /\ l.longitude = 0)
    /\ l.latitude >= -80000000 /\ l.latitude <= 80000000
    /\ l.longitude >= -160000000 /\ l.longitude <= 160000000

\* the haversine distance of two samples near the default origin exceeds 0.5 m:
\* a unit is 0.12509 m of latitude and 0.9927 times that of longitude
DistanceOver(a, b) ==
    LET dLat == Abs(a.latitude - b.latitude)
        dLon == Abs(a.longitude - b.longitude)
    IN \/ dLat > 100
       \/ dLon > 100
       \/ 10000 * dLat * dLat + 9854 * dLon * dLon > 159760

\* the candidate differs from the last accepted sample by more than 0.5 m, more than
\* 5 degrees of heading or more than 0.5 m/s of speed, or there is no such sample
Changed(previous, candidate) ==
    \/ previous = NoLive
    \/ DistanceOver(previous, candidate)
    \/ Abs(candidate.heading - previous.heading) > 5
    \/ Abs(candidate.speed - previous.speed) > 5

\* C15: a valid position the browser delivers is handed to updateDeviceLocation if and
\* only if there is no previously accepted sample or it lies more than 0.5 m from that
\* sample or differs from it by more than 5 degrees of heading or 0.5 m/s of speed.
\* Violated: processGPSLocation and processRealTimeLocation upload every position.
C15_OnlyChangedSamplesUploaded ==
    [][(gpsCandidate' # gpsCandidate /\ ValidSample(gpsCandidate')) =>
          ((gpsUploads' # gpsUploads) <=> Changed(gpsAccepted, gpsCandidate'))]_vars

\* C16: a sample with a NaN coordinate, with both coordinates zero or with a coordinate
\* out of range is never applied to the device list, and the record the list holds
\* for the device stays as it was.
\* Violated: updateDeviceLocation applies whatever location the server answered ok
\* to, and the filter of fetchDevices drops the device whose snapshot is invalid.
C16_InvalidSampleRejected ==
    [][/\ \A u \in gpsUploads :
            (u \notin gpsUploads' /\ ~ValidSample(u.loc)) => gpsDevices' = gpsDevices
       /\ \A i \in 1..Len(gpsServer) :
            (gpsServer' = gpsServer /\ gpsUploads' = gpsUploads
               /\ ~ValidSample(gpsServer[i].last_location))
            => gpsDevices' = gpsDevices]_vars

\* C17: when the answer to an upload arrives, the device list does not go back to a
\* sample older than the one it holds for the device.
\* Violated: the answers are applied in their order of arrival.
C17_NewerSampleKept ==
    [][\A u \in gpsUploads :
          (/\ u \notin gpsUploads' /\ ValidSample(u.loc)
           /\ FindIdx(gpsDevices, u.dev) # 0
           /\ ValidSample(Rec(gpsDevices, u.dev).last_location)) =>
             Rec(gpsDevices', u.dev).last_location.timestamp
                >= Rec(gpsDevices, u.dev).last_location.timestamp]_vars

\* the bounding boxes of two polygons share a point
BoxesIntersect(a, b) ==
    LET boundsA == getPolygonBounds(a)
        boundsB == getPolygonBounds(b)
    IN /\ boundsA.north >= boundsB.south /\ boundsA.south <= boundsB.north
       /\ boundsA.east >= boundsB.west /\ boundsA.west <= boundsB.east

\* some vertex of the rectangle a lies strictly inside the rectangle b
VertexWithin(a, b) ==
    LET boundsB == getPolygonBounds(b)
    IN \E i \in 1..Len(a) :
          /\ boundsB.south < a[i][1] /\ a[i][1] < boundsB.north
          /\ boundsB.west < a[i][2] /\ a[i][2] < boundsB.east

Compared == polyA # <<>> /\ polyB # <<>>

\* C18: doPolygonsOverlap returns true when the bounding boxes of the two polygons
\* intersect and a vertex of one lies strictly inside the other, at every origin,
\* and false when the bounding boxes are disjoint.
\* Violated: isPointInPolygon compares latitudes with longitudes, so away from the
\* diagonal no vertex is found inside.
C18_OverlapFlagged ==
    Compared =>
        /\ (BoxesIntersect(polyA, polyB)
              /\ (VertexWithin(polyA, polyB) \/ VertexWithin(polyB, polyA))) => overlaps
        /\ ~BoxesIntersect(polyA, polyB) => ~overlaps

\* C19: at the default origin (6.9271, 79.8612), with the campus 0.00018 degrees wide
\* and high, verifyNoOverlaps returned true for the four sections, and
\* doPolygonsOverlap returns false for every pair of them.
C19_DefaultCampusNoOverlap ==
    zoneOrigin = DefaultOrigin =>
        /\ noOverlaps
        /\ LET sections == CampusManager(zoneOrigin).sections
           IN (\E i, j \in 1..4 : i # j /\ polyA = sections[i].coordinates
                                        /\ polyB = sections[j].coordinates) => ~overlaps

\* the default campus was built, and library and admin were compared
C19_Witness ==
    /\ zoneOrigin = DefaultOrigin
    /\ noOverlaps
    /\ polyA = CampusManager(DefaultOrigin).sections[1].coordinates
    /\ polyB = CampusManager(DefaultOrigin).sections[4].coordinates
    /\ ~overlaps

\* C20: from the moment StableMapUpdater starts a flyTo, it starts no other before the
\* nominal duration of that flyTo has passed.
\* Violated: the flag is released 1 s after the update, the flyTo lasts 1.5 s.
C20_NoTransitionDuringFlight ==
    [][flight' # flight => viewNow >= flight.until]_vars

\* the effect has run past its guard at least once
Decided == decision # NoDecision

\* the number of valid devices differs from the last committed count
CountDiffers == Len(decision.devices) # decision.lastCount

\* some current device_id is absent from the last committed snapshot
UnseenDevice ==
    \E i \in 1..Len(decision.devices) :
        \A k \in 1..Len(decision.lastPositions) :
            decision.lastPositions[k].device_id # decision.devices[i].device_id

\* some device's latitude or longitude differs from its last committed value by more
\* than the threshold
MovedDevice ==
    \E i \in 1..Len(decision.devices) :
        \E k \in 1..Len(decision.lastPositions) :
            /\ decision.lastPositions[k].device_id = decision.devices[i].device_id
            /\ \/ Abs(decision.devices[i].last_location.latitude
                        - decision.lastPositions[k].lat) > SignificantMove
               \/ Abs(decision.devices[i].last_location.longitude
                        - decision.lastPositions[k].lng) > SignificantMove

\* C21 (as stated): shouldUpdateMap returns true exactly when the count of valid
\* devices differs from the last committed count, or a current device_id is absent
\* from the last committed snapshot, or a device is more than the threshold away, in
\* latitude or longitude, from its last committed position.
\* Violated: with no snapshot committed yet and no valid device it returns true.
C21_UpdateOnlyOnChange ==
    Decided => (decision.result <=> (CountDiffers \/ UnseenDevice \/ MovedDevice))

\* C21 (amended): shouldUpdateMap returns true exactly when the count of valid
\* devices differs from the last committed count, or the last committed snapshot is
\* empty, or a current device_id is absent from it, or a device is more than the
\* threshold away, in latitude or longitude, from its last committed position.
C21_UpdateOnChangeOrEmptySnapshot ==
    Decided =>
        (decision.result <=>
            (CountDiffers \/ Len(decision.lastPositions) = 0 \/ UnseenDevice \/ MovedDevice))

\* the device, committed at the origin, has moved twice by 6 m: 12 m from the
\* committed position, shouldUpdateMap returned true
C21_Witness ==
    /\ decision.devices = <<ViewDevice(100, 0)>>
    /\ decision.lastPositions = PositionsOf(<<ViewDevice(0, 0)>>)
    /\ decision.lastCount = 1
    /\ decision.result

\* C22: the centre computed for one valid device is that device's position; for two
\* or more it is the midpoint of the least and greatest latitude and of the least and
\* greatest longitude; in both cases it lies within the bounding box of the valid
\* devices' positions.
C22_CenterIsMidpoint ==
    decision.updated =>
        LET d == decision.devices
            lats == {d[i].last_location.latitude : i \in 1..Len(d)}
            lons == {d[i].last_location.longitude : i \in 1..Len(d)}
            c == decision.center
        IN /\ Len(d) = 1 => (c.lat = d[1].last_location.latitude
                               /\ c.lng = d[1].last_location.longitude)
           /\ Len(d) >= 2 => (2 * c.lat = MinOf(lats) + MaxOf(lats)
                                /\ 2 * c.lng = MinOf(lons) + MaxOf(lons))
           /\ MinOf(lats) <= c.lat /\ c.lat <= MaxOf(lats)
           /\ MinOf(lons) <= c.lng /\ c.lng <= MaxOf(lons)

\* the centre was computed for three devices and is none of their positions
C22_Witness ==
    /\ decision.updated
    /\ Len(decision.devices) = 3
    /\ \A i \in 1..3 : decision.center.lat # decision.devices[i].last_location.latitude

\* C23: the zoom computed depends on the number of valid devices alone: the zoom
\* of one device for 1, one less for 2, two less for 3 to 5, three less for more than
\* 5; it does not increase with the number of devices.
C23_ZoomByBracket ==
    /\ decision.updated =>
          LET n == Len(decision.devices)
              z0 == calculateZoom(<<ViewDevice(0, 0)>>)
          IN decision.zoom = IF n = 1 THEN z0
                             ELSE IF n = 2 THEN z0 - 1
                             ELSE IF n <= 5 THEN z0 - 2 ELSE z0 - 3
    /\ \A a, b \in DeviceLists :
          Len(ValidList(a)) <= Len(ValidList(b))
             => calculateZoom(ValidList(a)) >= calculateZoom(ValidList(b))

\* the zoom was computed for two devices, one step below that of one device
C23_Witness ==
    /\ decision.updated
    /\ Len(decision.devices) = 2
    /\ decision.zoom = calculateZoom(<<ViewDevice(0, 0)>>) - 1

\* C24: the campus does not move with devices.  While the MapView stays mounted, the
\* campus of the MapView that keeps a campus centre is not altered by any step once
\* the centre has been set, the campus of the MapView that builds at the user location
\* is not altered by any step once it has been built, and the geometry of either
\* changes only when its effective origin changes.
CenterOrigin == campusLocation(campusCenterLocation, firstDevice, campUser)
UserOrigin == IF campUser # NoOrigin THEN campUser ELSE getFallbackLocation(campDevices, Own)
C24_CampusStaysPut ==
    [][(campMounted /\ campMounted') =>
          /\ campusCenterLocation # NoOrigin => campusManager' = campusManager
          /\ userCampus' = userCampus
          /\ campusManager' # campusManager => CenterOrigin' # CenterOrigin
          /\ userCampus' # userCampus => UserOrigin' # UserOrigin]_vars

\* C25: a campus constructed with a missing or invalid origin is the campus constructed
\* with the default origin, by either class: the same bounds and the same zones.
InvalidOrigin(o) ==
    \/ o = NoOrigin
    \/ o.latitude < -80000000 \/ o.latitude > 80000000
    \/ o.longitude < -160000000 \/ o.longitude > 160000000
    \/ o.latitude = 0 /\ o.longitude = 0
C25_InvalidOriginGivesDefaultCampus ==
    (built # NoBuilt /\ InvalidOrigin(built.given)) =>
        /\ built.user = CampusManager(DefaultOrigin)
        /\ built.center = CampusManager(DefaultOrigin)

\* C26: a snapshot fetch that fails leaves the device list as it was and does not stop
\* the devicesInterval: the Dashboard is as mounted as before, and while it is mounted
\* the interval can fire again as soon as no other fetch is under way.
C26_FailedFetchKeepsDevicesAndPolling ==
    [][failures' # failures =>
          /\ devices' = devices
          /\ mounted' = mounted
          /\ (mounted /\ fetches' = {}) => (ENABLED PollIssued)']_vars
C26_Witness ==
    /\ failures > 0
    /\ devices # <<>>
    /\ polledAfterFailure
    /\ fetches # {}

\* C27: a live update for device X changes only X's record.  After updateDeviceLocation
\* for X every entry the list had is in its place with its device_id, every entry of
\* another device is as it was, and the list grows by at most one entry, which is X's,
\* at the end, and only when X was absent.
Listed(devs, x) == \E i \in 1..Len(devs) : devs[i].device_id = x
OnlyChanged(old, new, x) ==
    /\ Len(new) \in {Len(old), Len(old) + 1}
    /\ \A i \in 1..Len(old) :
          /\ new[i].device_id = old[i].device_id
          /\ old[i].device_id # x => new[i] = old[i]
    /\ Len(new) = Len(old) + 1 => (~Listed(old, x) /\ new[Len(new)].device_id = x)
    /\ mounted => Listed(new, x)
C27_LiveUpdateTouchesOneDevice ==
    [][\A u \in uploads : updateDeviceLocation(u) => OnlyChanged(devices, devices', u.dev)]_vars
C27_Witness ==
    /\ Len(devices) = 2
    /\ devices[1].last_location.origin = "local"
    /\ devices[2].last_location.origin = "server"

\* C28: a device of the list is kept as valid (rendered, and used for the centre and the
\* zoom) if and only if its latitude is within 90 degrees, its longitude within 180
\* degrees, and the two are not both zero.
ValidPosition(location) ==
    /\ location.latitude >= -80000000 /\ location.latitude <= 80000000
    /\ location.longitude >= -160000000 /\ location.longitude <= 160000000
    /\ ~(location.latitude = 0 /\ location.longitude = 0)
C28_ValidIffInRangeAndNotZeroZero ==
    viewMounted =>
        ValidList(viewDevices) =
            SelectSeq(viewDevices, LAMBDA device : ValidPosition(device.last_location))

\* C29: the campus bounds are the rectangle from (origin.lat - height/2, origin.lng -
\* width/2) to (origin.lat + height/2, origin.lng + width/2); a point is in the campus
\* exactly when it is within height/2 of the origin's latitude and within width/2 of
\* its longitude, the edges included; the origin itself is in the campus.
InRectangle(pt, o) ==
    /\ Abs(pt.lat - o.latitude) <= CampusHeight \div 2
    /\ Abs(pt.lng - o.longitude) <= CampusWidth \div 2
C29_BoundsAndContainment ==
    /\ CampusManager(origin).campusBounds =
          <<  <<origin.latitude - CampusHeight \div 2, origin.longitude - CampusWidth \div 2>>,
              <<origin.latitude + CampusHeight \div 2, origin.longitude + CampusWidth \div 2>>  >>
    /\ inCampus <=> InRectangle(probe, origin)
    /\ isInCampus(CampusManager(origin), origin.latitude, origin.longitude)
C29_Witness ==
    /\ probe.lat = origin.latitude + CampusHeight \div 2
    /\ probe.lng = origin.longitude - CampusWidth \div 2
    /\ inCampus

\* C30: the distance of a point from itself is zero, and the distance from A to B is
\* the distance from B to A (a number, the same one).
C30_DistanceZeroAndSymmetric ==
    /\ ~isNaN(distanceThere)
    /\ distanceThere = distanceBack
    /\ distFrom = distTo => distanceThere = 0
C30_Witness ==
    /\ distFrom.lat # distTo.lat
    /\ Abs(distFrom.lat) # Abs(distTo.lat)
    /\ distFrom.lng # distTo.lng
    /\ distanceThere > 0
    /\ distanceThere = distanceBack

\* C31: after logout the user stays logged out until the next login or registration:
\* user is null and localStorage holds no 'user' entry.
C31_LoggedOutUntilLogin ==
    loggedOut => (appUser = NoUser /\ storedUser = NoUser)

\* C32: a device has at most one active network-fallback interval timer.
C32_OneFallbackIntervalPerDevice ==
    \A h1, h2 \in handles :
        (h1.kind = "interval" /\ h2.kind = "interval" /\ h1.dev = h2.dev) => h1 = h2

\* C33: interaction suppression always ends: once the last interaction has ended (its
\* 2 s fit into the clock), userInteracting becomes false again unless a new
\* interaction starts.
C33_SuppressionEnds ==
    (open = 0 /\ lastEnd >= 0 /\ lastEnd + Debounce <= MaxMapClock)
        ~> (~userInteracting \/ open > 0)

\* C34: when the server rejects an upload because it does not list the device
\* (DEVICE_NOT_FOUND), updateDeviceLocation sets locationStatus to 'waiting_for_setup'
\* and leaves the device list unchanged.
C34_DeviceNotFoundWaitsForSetup ==
    [][\A u \in uploads :
          (mounted /\ server[u.dev] < 0 /\ updateDeviceLocationFailed(u))
              => (locationStatus' = "waiting_for_setup" /\ devices' = devices)]_vars

\* C35: locationStatus agrees with the tracker of the current device: a fallback
\* interval as its tracker means the status is 'tracking_fallback', and a status of
\* 'tracking_mobile_gps' or 'tracking_laptop' means its tracker is a geolocation watch.
C35_StatusAgreesWithTracker ==
    (mounted /\ currentDeviceId # "none") =>
        /\ trackers[currentDeviceId].type = "interval" => locationStatus = "tracking_fallback"
        /\ locationStatus \in {"tracking_mobile_gps", "tracking_laptop"}
               => trackers[currentDeviceId].type = "gps"

\* the live samples the list holds for device d
LiveOf(devs, d) ==
    {devs[i].last_location :
        i \in {j \in 1..Len(devs) : devs[j].device_id = d /\ devs[j].last_location.origin = "local"}}

\* C36: a live sample enters the device list only with the server's acknowledgement
\* of its upload, and an upload the server rejects leaves the list as it is and the
\* tracking sessions running.
C36_AppliedOnlyAfterAcknowledged ==
    [][/\ \A d \in Devices :
              LiveOf(devices', d) \ LiveOf(devices, d) # {}
                  => (server[d] >= 0 /\ server'[d] = now')
       /\ \A u \in uploads \ uploads' :
              server[u.dev] < 0
                  => (devices' = devices /\ handles' = handles /\ trackers' = trackers)]_vars

C36_Witness ==
    \E u \in uploads :
        /\ server[u.dev] < 0
        /\ \E h \in handles : h.dev = u.dev
        /\ \E i \in 1..Len(devices) : devices[i].device_id = u.dev

\* C37: every zone polygon of the campus lies inside the campus bounds, and a point
\* that getCurrentSection puts in a zone is a point for which isInCampus is true.
C37_ZonesInsideCampus ==
    /\ \A i \in 1..Len(CampusManager(origin).sections) :
           \A k \in 1..Len(CampusManager(origin).sections[i].coordinates) :
               LET v == CampusManager(origin).sections[i].coordinates[k]
               IN isInCampus(CampusManager(origin), v[1], v[2])
    /\ section # "none" => inCampus

\* the first half of C37 alone: the vertices of every zone are inside the bounds
ZoneVerticesInsideCampus ==
    \A i \in 1..Len(CampusManager(origin).sections) :
        \A k \in 1..Len(CampusManager(origin).sections[i].coordinates) :
            LET v == CampusManager(origin).sections[i].coordinates[k]
            IN isInCampus(CampusManager(origin), v[1], v[2])

\* C38: no device_id occurs twice in the device list.
C38_DeviceIdsUnique ==
    \A i, j \in 1..Len(devices) : devices[i].device_id = devices[j].device_id => i = j

\* two live samples of a device under way at once while the list did not hold the
\* device, one of them applied and the other still under way
C38_Witness ==
    /\ \E u \in uploads : \E i \in 1..Len(devices) :
           /\ devices[i].device_id = u.dev
           /\ devices[i].last_location.origin = "local"
           /\ devices[i].last_location # u.loc
    /\ Len(devices) = 1
    /\ fetches = {}

\* C39: the viewport stabilizer becomes active: while the devices prop holds a device
\* with a valid position, mapReady becomes true and StableMapUpdater is mounted.
C39_StabilizerBecomesActive ==
    (validDevicesLength(readyDevices) > 0)
        ~> ((mapReady /\ updaterMounted) \/ validDevicesLength(readyDevices) = 0)

=============================================================================
